---------------------------- MODULE Spec2Model ----------------------------
(***************************************************************************)
(* State-machine model of the fake-cdn synthetic traffic engine            *)
(* (src/fake_cdn/core/generator.py, src/fake_cdn/core/validator.py).       *)
(*                                                                         *)
(* Number representation.  The program computes in IEEE doubles; the model *)
(* computes in fixed point, one rounding (towards zero) per arithmetic     *)
(* step, in these units:                                                   *)
(*   bandwidth in Gbps ........ milli-Gbps  (20 Gbps = 20000)              *)
(*   daily_factor ............. 1/200       (0.95 = 190)                   *)
(*   weekly / monthly factor .. 1/20        (0.85 = 17, 1.15 = 23)         *)
(*   noise_factor ............. 1/437       (1.0 = 437; 437 = 19 * 23, so  *)
(*                              that 0.95 * 1.15 * noise lands on whole    *)
(*                              milli-Gbps)                                *)
(*   burst_factor ............. 1/10        (2.0 = 20)                     *)
(*   rates and shares ......... percent     (0.85 = 85)                    *)
(*   byte counts .............. units of 2^20 bytes                        *)
(*   timestamps ............... milliseconds since the epoch instant of    *)
(*                              the window start (local midnight of        *)
(*                              start_date); wall-clock times likewise     *)
(*   time.start_date .......... days since a Monday (0 = Monday)           *)
(* A random draw is an input chosen with \E from a finite set of values of *)
(* the drawn range.                                                        *)
(***************************************************************************)
EXTENDS Integers, Sequences, FiniteSets, TLC

VARIABLES
    cfg,        \* the configuration of the run
    tz,         \* the host's local time zone: when its clocks are moved, and by how much
    raised,     \* the exception that ended the run, "" while there is none
    pc,         \* position of the run
    curve,      \* BandwidthCurveGenerator.generate: the samples so far
    raw,        \* the curve as it was handed to _adjust_to_target
    values,     \* the argument of Percentile95Validator.calculate_p95
    result,     \* how that call ended, and what it returned
    bandwidth,  \* the bandwidth_gbps argument of MetricsDerivator.derive
    timestamp,  \* the timestamp_ms argument of inject and distribute
    metrics,    \* the metrics dict (derive's result, mutated by inject)
    entry,      \* the metrics dict as inject received it
    fired,      \* the random draws of the last inject call
    pos,        \* generate_full_month: index i of the sample being processed
    summary,    \* generate_full_month: stats
    logs,       \* generate_full_month: all_logs
    report,     \* how validate_logs ended, and what it returned
    billing,    \* how calculate_95_billing ended, and what it returned
    dry_run,    \* LogPusher: the dry_run argument of the call in progress
    pusher_stats, \* LogPusher: self.stats
    before,     \* LogPusher: self.stats as the call in progress found it
    sent,       \* LogPusher: the push_single calls of the call in progress, in
                \* order: the entry and whether push_single returned success
    batch_start,\* LogPusher.push_all: index i of the batch loop
    calls,      \* LogPusher, RealtimeScheduler: calls made so far
    now,        \* the host's clock: the instant datetime.now() returns
    dt,         \* RealtimeScheduler._align_to_interval: the argument
    aligned,    \* RealtimeScheduler._align_to_interval: the datetime returned
    state,      \* RealtimeScheduler: self.state
    state_file, \* RealtimeScheduler: what the state file holds
    sched_curve, \* RealtimeScheduler: self.bandwidth_curve
    returned,   \* RealtimeScheduler.run_once: what the last call returned
    history     \* RealtimeScheduler.run_once: of every call that pushed, the
                \* timestamp_ms and the dict push_batch returned

curveVars == <<curve, raw>>

statVars == <<values, result>>

recVars == <<bandwidth, timestamp, metrics, entry, fired>>

monthVars == <<pos, summary, logs, report>>

\* The variables of the billing calculator, the pusher and the scheduler
pushVars == <<dry_run, pusher_stats, before, sent, batch_start, calls>>

schedVars == <<now, dt, aligned, state, state_file, sched_curve, returned, history>>

svcVars == <<billing, pushVars, schedVars>>

vars == <<cfg, tz, raised, pc, curve, raw, values, result, bandwidth, timestamp, metrics,
          entry, fired, pos, summary, logs, report, svcVars>>

---------------------------------------------------------------------------
(* Arithmetic helpers *)

Abs(x) == IF x < 0 THEN -x ELSE x

Max(a, b) == IF a >= b THEN a ELSE b

Min(a, b) == IF a <= b THEN a ELSE b

\* int(a * n / d) for a, n >= 0, d > 0, without forming the product a * n
MulDiv(a, n, d) == (a \div d) * n + ((a % d) * n) \div d

\* Python's sum() over s[lo..hi], by halves
RECURSIVE SumRange(_, _, _)
SumRange(s, lo, hi) ==
    IF lo > hi THEN 0
    ELSE IF lo = hi THEN s[lo]
    ELSE LET mid == (lo + hi) \div 2
         IN  SumRange(s, lo, mid) + SumRange(s, mid + 1, hi)

SumSeq(s) == SumRange(s, 1, Len(s))

\* Python's max() over s[lo..hi] of a non-empty list, by halves
RECURSIVE MaxRange(_, _, _)
MaxRange(s, lo, hi) ==
    IF lo = hi THEN s[lo]
    ELSE LET mid == (lo + hi) \div 2
         IN  Max(MaxRange(s, lo, mid), MaxRange(s, mid + 1, hi))

MaxSeq(s) == MaxRange(s, 1, Len(s))

\* The list as it is, taken for the sorted one
Unsorted(s) == s

\* Python's sorted() on a list of numbers: the smaller values sorted, the
\* values equal to the middle element, the larger values sorted
RECURSIVE Sorted(_)
Sorted(s) ==
    IF Len(s) <= 1 THEN s
    ELSE LET pivot == s[(Len(s) + 1) \div 2]
         IN  Sorted(SelectSeq(s, LAMBDA x : x < pivot))
                \o SelectSeq(s, LAMBDA x : x = pivot)
                \o Sorted(SelectSeq(s, LAMBDA x : x > pivot))

\* A record without one of its fields
Without(r, k) == [x \in DOMAIN r \ {k} |-> r[x]]

\* Python's {**a, **b} for dicts with distinct keys
Merge(a, b) ==
    [k \in DOMAIN a \cup DOMAIN b |-> IF k \in DOMAIN a THEN a[k] ELSE b[k]]

\* Python's s[a:b] (0-based, end exclusive, clipped to the list)
Slice(s, a, b) == SubSeq(s, a + 1, Min(b, Len(s)))

---------------------------------------------------------------------------
(* Bounds of the model and the draw sets *)

MaxDays == 4

MaxPoints == 4

\* target.bandwidth_gbps, in milli-Gbps: 0.1 Gbps and 20 Gbps
Targets == {100, 20000}

\* time.interval_seconds: half a minute, 6 h, 12 h, 24 h
Intervals == {30, 21600, 43200, 86400}

\* random.uniform(0.92, 1.08), in 1/437
NoiseDraws == {403, 408, 471}

\* random.random() compared with burst_probability, in percent
UnitDraws == {0, 50}

\* random.uniform(2.0, 3.0), in 1/10
BurstDraws == {20, 30}

---------------------------------------------------------------------------
(* BandwidthCurveGenerator *)

\* 200 * (0.6 + 0.7 * (0.5 + 0.5 * sin((hour - 6) * pi / 12))), rounded
DailyFactor(hour_of_day) ==
    <<120, 122, 129, 141, 155, 172, 190, 208, 225, 239, 251, 258,
      260, 258, 251, 239, 225, 208, 190, 172, 155, 141, 129, 122>>[hour_of_day + 1]

WeeklyFactor(day_of_week) == IF day_of_week \in {5, 6} THEN 17 ELSE 20

MonthlyFactor(day_of_month, duration_days) ==
    IF day_of_month < 3 \/ day_of_month >= duration_days - 3 THEN 23 ELSE 20

TotalPoints(duration_days, interval_seconds) ==
    (duration_days * 24 * 60) \div (interval_seconds \div 60)

\* burst_factor: random.random() < burst_prob ? random.uniform(2.0, 3.0) : 1.0
BurstFactor(c, u, burst) == IF u < c.burst_probability THEN burst ELSE 10

FloorGbps == 100

\* day_of_week of index i: whole days since the first sample, modulo 7
DayOfWeek(c, i) == ((i * (c.interval_seconds \div 60)) \div 1440) % 7

\* The product of the factors for index i, clamped: the sample appended
SampleWith(c, i, weekly_factor, noise, burst_factor) ==
    LET minute_of_month == i * (c.interval_seconds \div 60)
        hour_of_day     == (minute_of_month \div 60) % 24
        day_of_month    == minute_of_month \div 1440
        b1 == (c.target_gbps * DailyFactor(hour_of_day)) \div 200
        b2 == (b1 * weekly_factor) \div 20
        b3 == (b2 * MonthlyFactor(day_of_month, c.duration_days)) \div 20
        b4 == (b3 * noise) \div 437
        bw == (b4 * burst_factor) \div 10
    IN  Max(FloorGbps, bw)

\* The body of generate's loop for index i: the sample appended to the curve
SampleBw(c, i, noise, burst_factor) ==
    SampleWith(c, i, WeeklyFactor(DayOfWeek(c, i)), noise, burst_factor)

PointsPerDay(c) == (24 * 60) \div (c.interval_seconds \div 60)

\* The daily value read at the validator's index, floor(n * 0.95)
CalcDailyP95NoOffset(day_curve) ==
    LET sorted_bw == Sorted(day_curve)
        n == Len(sorted_bw)
    IN  sorted_bw[Min((n * 95) \div 100, n - 1) + 1]

\* calc_daily_p95
CalcDailyP95(day_curve) ==
    LET sorted_bw == Sorted(day_curve)
        n   == Len(sorted_bw)
        i0  == (n * 95) \div 100 - 1
        i1  == IF i0 < 0 THEN 0 ELSE i0
        idx == IF i1 >= n THEN n - 1 ELSE i1
    IN  sorted_bw[idx + 1]

\* daily_p95_list: one value per day-sized window with at least half a day of points
DailyP95List(c, cv) ==
    LET ppd == PointsPerDay(c)
        RECURSIVE Build(_)
        Build(day_start) ==
            IF day_start >= Len(cv) THEN <<>>
            ELSE LET day_curve == Slice(cv, day_start, day_start + ppd)
                 IN  (IF 2 * Len(day_curve) >= ppd
                      THEN <<CalcDailyP95(day_curve)>> ELSE <<>>)
                     \o Build(day_start + ppd)
    IN  Build(0)

AvgDailyP95(c, cv) ==
    LET daily_p95_list == DailyP95List(c, cv)
    IN  IF daily_p95_list # <<>>
        THEN SumSeq(daily_p95_list) \div Len(daily_p95_list)
        ELSE MaxSeq(cv)

\* abs(avg_daily_p95 - target) / target > 0.02
OffTarget(avg_daily_p95, target_gbps) ==
    50 * Abs(avg_daily_p95 - target_gbps) > target_gbps

\* The scaling with the quotient upside down
RescaleInverted(bw, target_gbps, avg_daily_p95) == MulDiv(bw, avg_daily_p95, target_gbps)

\* bw * scale, scale = target / avg_daily_p95
Rescale(bw, target_gbps, avg_daily_p95) == MulDiv(bw, target_gbps, avg_daily_p95)

AdjustToTarget(c, cv) ==
    LET avg_daily_p95 == AvgDailyP95(c, cv)
    IN  IF OffTarget(avg_daily_p95, c.target_gbps)
        THEN [i \in 1..Len(cv) |-> Rescale(cv[i], c.target_gbps, avg_daily_p95)]
        ELSE cv

---------------------------------------------------------------------------
(* Percentile95Validator.calculate_p95 *)

\* The index the calibration uses, taken for the validator's
P95IndexOffset(total) == Max(0, (total * 95) \div 100 - 1)

\* p95_index = int(total * 0.95)
P95Index(total) == (total * 95) \div 100

\* The dict returned for a non-empty list
P95Stats(vals) ==
    LET sorted_values == Sorted(vals)
        total     == Len(sorted_values)
        p50_index == total \div 2
        p95_index == P95Index(total)
        p99_index == (total * 99) \div 100
        top       == SubSeq(sorted_values, p95_index + 1, total)
    IN  [total_points |-> total,
         min |-> sorted_values[1],
         max |-> sorted_values[total],
         avg |-> SumSeq(sorted_values) \div total,
         p50 |-> sorted_values[p50_index + 1],
         p95 |-> sorted_values[p95_index + 1],
         p99 |-> sorted_values[p99_index + 1],
         top_5_percent |-> [count |-> total - p95_index,
                            min |-> sorted_values[p95_index + 1],
                            max |-> sorted_values[total],
                            avg |-> SumSeq(top) \div (total - p95_index)]]

\* The call: it returns normally for every list, and for the empty one the
\* dict {"error": ...}
CalculateP95(vals) ==
    IF vals = <<>>
    THEN [raised |-> "", value |-> [error |-> "empty data"]]
    ELSE [raised |-> "", value |-> P95Stats(vals)]

---------------------------------------------------------------------------
(* MetricsDerivator.derive *)

\* The two ends of a configured [low, high] range stand for random.uniform(low, high)
RangeDraws(range) == {range[1], range[2]}

\* int(bandwidth_gbps * 1024 * 1024 * 1024 * interval_seconds / 8)
FluxBytes(bandwidth_gbps, interval_seconds) ==
    MulDiv(bandwidth_gbps * interval_seconds, 128, 1000)

\* int(flux_bytes * (1 - cache_hit_rate))
OriginFlux(flux_bytes, cache_hit_rate) == MulDiv(flux_bytes, 100 - cache_hit_rate, 100)

\* max(1, int(flux_bytes / avg_obj_size)), avg_obj_size = avg_obj_size_kb * 1024 bytes
RequestCount(flux_bytes, avg_obj_size_kb) ==
    Max(1, MulDiv(flux_bytes, 1024, avg_obj_size_kb))

\* int(req_num * cache_hit_rate)
HitCount(req_num, cache_hit_rate) == MulDiv(req_num, cache_hit_rate, 100)

OriginCountSwapped(req_num, hit_num) == hit_num - req_num

\* bs_num = req_num - hit_num
OriginCount(req_num, hit_num) == req_num - hit_num

\* max(0, int(bs_num * bs_fail_rate)), the rate in 1/1000
OriginFailures(bs_num, bs_fail_rate) == Max(0, MulDiv(bs_num, bs_fail_rate, 1000))

\* The status histogram of num requests with the drawn shares of 2xx, 4xx, 3xx
StatusCodes(num, s2xx, s4xx, s3xx) ==
    LET c2xx == MulDiv(num, s2xx, 100)
        c4xx == MulDiv(num, s4xx, 100)
        c3xx == MulDiv(num, s3xx, 100)
    IN  [c2xx |-> c2xx, c3xx |-> c3xx, c4xx |-> c4xx,
         c5xx |-> Max(0, num - c2xx - c4xx - c3xx)]

\* The random draws of one derive call
DeriveDraws(c) ==
    [cache_hit_rate : RangeDraws(c.cache_hit_rate),
     avg_obj_size_kb : RangeDraws(c.avg_object_size_kb),
     bs_fail_rate : RangeDraws(c.origin_fail_rate),
     s2xx : {75, 90}, s4xx : {5, 15}, s3xx : {2, 8},
     o2xx : {85, 95}, o4xx : {2, 8}, o3xx : {1, 5}]

Derive(bandwidth_gbps, interval_seconds, d) ==
    LET flux_bytes     == FluxBytes(bandwidth_gbps, interval_seconds)
        bs_flux_bytes  == OriginFlux(flux_bytes, d.cache_hit_rate)
        hit_flux_bytes == flux_bytes - bs_flux_bytes
        req_num        == RequestCount(flux_bytes, d.avg_obj_size_kb)
        hit_num        == HitCount(req_num, d.cache_hit_rate)
        bs_num         == OriginCount(req_num, hit_num)
        bs_fail_num    == OriginFailures(bs_num, d.bs_fail_rate)
        http           == StatusCodes(req_num, d.s2xx, d.s4xx, d.s3xx)
        bs_http        == IF bs_num > 0
                          THEN StatusCodes(bs_num, d.o2xx, d.o4xx, d.o3xx)
                          ELSE [c2xx |-> 0, c3xx |-> 0, c4xx |-> 0, c5xx |-> 0]
    IN  [bw |-> MulDiv(bandwidth_gbps, 1024, 1000),
         flux |-> flux_bytes,
         bs_bw |-> (bs_flux_bytes * 8) \div interval_seconds,
         bs_flux |-> bs_flux_bytes,
         req_num |-> req_num,
         hit_num |-> hit_num,
         bs_num |-> bs_num,
         bs_fail_num |-> bs_fail_num,
         hit_flux |-> hit_flux_bytes,
         http_code_2xx |-> http.c2xx,
         http_code_3xx |-> http.c3xx,
         http_code_4xx |-> http.c4xx,
         http_code_5xx |-> http.c5xx,
         bs_http_code_2xx |-> bs_http.c2xx,
         bs_http_code_3xx |-> bs_http.c3xx,
         bs_http_code_4xx |-> bs_http.c4xx,
         bs_http_code_5xx |-> bs_http.c5xx]

---------------------------------------------------------------------------
(* AnomalyInjector.inject *)

\* The host's zone is [at, jump]: when its wall clocks show `at` they are moved
\* by `jump` ms (forward if positive, back if negative, not at all if 0).
\* datetime.timestamp() of a naive local time: a wall time the forward jump
\* skips is read with the offset before the jump; a wall time the backward
\* jump repeats is read as its first occurrence
EpochOf(wall_ms) == IF wall_ms < tz.at + Max(tz.jump, 0) THEN wall_ms ELSE wall_ms - tz.jump

\* datetime.fromtimestamp(): the wall time the host shows at an instant
LocalOf(epoch_ms) == IF epoch_ms < tz.at THEN epoch_ms ELSE epoch_ms + tz.jump

\* datetime.fromtimestamp(timestamp_ms / 1000).hour
HourOf(timestamp_ms) == ((LocalOf(timestamp_ms) \div 1000) \div 3600) % 24

MaintenanceUnclamped(m, share) ==
    LET spike_5xx == MulDiv(m.req_num, share, 100)
    IN  [m EXCEPT !.http_code_5xx = spike_5xx,
                  !.http_code_2xx = m.http_code_2xx - spike_5xx]

\* 1. maintenance window, spike_5xx = int(req_num * share)
Maintenance(m, share) ==
    LET spike_5xx == MulDiv(m.req_num, share, 100)
    IN  [m EXCEPT !.http_code_5xx = spike_5xx,
                  !.http_code_2xx = Max(0, m.http_code_2xx - spike_5xx)]

OriginOutageAdded(m, fail_rate) ==
    LET bs_fail_num == MulDiv(m.bs_num, fail_rate, 100)
    IN  [m EXCEPT !.bs_fail_num = bs_fail_num,
                  !.bs_http_code_5xx = m.bs_http_code_5xx + bs_fail_num,
                  !.bs_http_code_2xx = Max(0, m.bs_num - bs_fail_num)]

\* 2. origin outage
OriginOutage(m, fail_rate) ==
    LET bs_fail_num == MulDiv(m.bs_num, fail_rate, 100)
    IN  [m EXCEPT !.bs_fail_num = bs_fail_num,
                  !.bs_http_code_5xx = bs_fail_num,
                  !.bs_http_code_2xx = Max(0, m.bs_num - bs_fail_num)]

CachePurgeBothRounded(m, new_hit_rate) ==
    LET hit_num == MulDiv(m.req_num, new_hit_rate, 100)
    IN  [m EXCEPT !.hit_num = hit_num,
                  !.bs_num = m.req_num - hit_num,
                  !.hit_flux = MulDiv(m.flux, new_hit_rate, 100),
                  !.bs_flux = MulDiv(m.flux, 100 - new_hit_rate, 100)]

\* 3. cache purge
CachePurge(m, new_hit_rate) ==
    LET hit_num  == MulDiv(m.req_num, new_hit_rate, 100)
        hit_flux == MulDiv(m.flux, new_hit_rate, 100)
    IN  [m EXCEPT !.hit_num = hit_num,
                  !.bs_num = m.req_num - hit_num,
                  !.hit_flux = hit_flux,
                  !.bs_flux = m.flux - hit_flux]

\* 4. abuse, spike_4xx = int(req_num * share)
Abuse(m, share) ==
    LET spike_4xx == MulDiv(m.req_num, share, 100)
    IN  [m EXCEPT !.http_code_4xx = spike_4xx,
                  !.http_code_2xx = Max(0, m.http_code_2xx - spike_4xx)]

\* Which perturbations the draws u_* of random.random() (in 1/1000) fire
MaintenanceFires(timestamp_ms, d) == HourOf(timestamp_ms) \in {2, 3, 4} /\ d.u_maintenance < 50

OutageFires(c, d) == d.u_outage < c.anomaly_probability

PurgeFires(d) == d.u_purge < 10

AbuseFires(d) == d.u_abuse < 5

\* inject: the four perturbations in their fixed order
Inject(c, m, timestamp_ms, d) ==
    LET m1 == IF MaintenanceFires(timestamp_ms, d) THEN Maintenance(m, d.spike_5xx_share) ELSE m
        m2 == IF OutageFires(c, d) THEN OriginOutage(m1, d.fail_rate) ELSE m1
        m3 == IF PurgeFires(d) THEN CachePurge(m2, d.new_hit_rate) ELSE m2
        m4 == IF AbuseFires(d) THEN Abuse(m3, d.spike_4xx_share) ELSE m3
    IN  m4

\* The random draws of one inject call: random.random() four times and the
\* four random.uniform amounts
AllInjectDraws ==
    [u_maintenance : {0, 500}, spike_5xx_share : {5, 15},
     u_outage : {0, 500}, fail_rate : {30, 80},
     u_purge : {0, 500}, new_hit_rate : {50, 70},
     u_abuse : {0, 500}, spike_4xx_share : {20, 40}]

\* An amount is drawn only when its perturbation fires
InjectDraws(c, timestamp_ms) ==
    {d \in AllInjectDraws :
        /\ MaintenanceFires(timestamp_ms, d) \/ (d.spike_5xx_share = 5 /\ d.u_maintenance = 500)
        /\ OutageFires(c, d) \/ d.fail_rate = 30
        /\ PurgeFires(d) \/ d.new_hit_rate = 50
        /\ AbuseFires(d) \/ d.spike_4xx_share = 20}

---------------------------------------------------------------------------
(* MultiDimensionDistributor.distribute *)

\* The shares rounded up past the floor
RegionMetricsRoundedUp(global_metrics, weight, jitter) ==
    [k \in DOMAIN global_metrics |->
        MulDiv(global_metrics[k], weight * jitter, 10000) + 1]

\* {k: int(v * actual_weight)}, actual_weight = weight * jitter, both in percent;
\* every value of the metrics dict is an int
RegionMetrics(global_metrics, weight, jitter) ==
    [k \in DOMAIN global_metrics |-> MulDiv(global_metrics[k], weight * jitter, 10000)]

LogEntry(c, region_info, global_metrics, timestamp_ms, d) ==
    Merge([tenantId |-> c.tenant_id,
           start_time |-> timestamp_ms,
           country |-> region_info.country,
           region |-> region_info.region,
           domain |-> c.domains[d.domain],
           interval |-> c.interval_seconds],
          RegionMetrics(global_metrics, region_info.weight, d.jitter))

\* The random draws of one distribute call: per region random.uniform(0.9, 1.1)
\* and the index random.choice takes
DistributeDraws(c) ==
    [1..Len(c.regions) -> [jitter : {90, 110}, domain : 1..Len(c.domains)]]

\* The entries in the reverse of the configuration order
DistributeReversed(c, global_metrics, timestamp_ms, dd) ==
    [r \in 1..Len(c.regions) |->
        LogEntry(c, c.regions[Len(c.regions) + 1 - r], global_metrics, timestamp_ms, dd[r])]

\* results: one log entry per region, in the order of the configuration
Distribute(c, global_metrics, timestamp_ms, dd) ==
    [r \in 1..Len(c.regions) |->
        LogEntry(c, c.regions[r], global_metrics, timestamp_ms, dd[r])]

---------------------------------------------------------------------------
(* CDNLogGenerator.generate_full_month *)

\* stats, over the curve generate returned
Summary(bandwidth_curve, interval_seconds) ==
    LET sorted_bw == Sorted(bandwidth_curve)
        n         == Len(sorted_bw)
        p95_index == (n * 95) \div 100
    IN  [total_points |-> n,
         p50_gbps |-> sorted_bw[n \div 2 + 1],
         p95_gbps |-> sorted_bw[p95_index + 1],
         p99_gbps |-> sorted_bw[(n * 99) \div 100 + 1],
         max_gbps |-> sorted_bw[n],
         min_gbps |-> sorted_bw[1],
         avg_gbps |-> SumSeq(bandwidth_curve) \div n,
         total_flux_tb |-> MulDiv(SumSeq(bandwidth_curve), interval_seconds, 8 * 1024)]

\* timestamp_ms of sample i: the instant of the naive local time
\* start_date + i * interval_seconds
TimestampMs(i, interval_seconds) == EpochOf(i * interval_seconds * 1000)

---------------------------------------------------------------------------
(* Percentile95Validator.validate_logs *)

\* The bw field of every log, in order: Mbps, that is 1/1024 Gbps
BwOf(ls) == [i \in 1..Len(ls) |-> ls[i].bw]

\* The comparison letting a deviation of exactly 5% pass
WithinFivePercentInclusive(total, n, target_gbps) ==
    LET want == 128 * n * target_gbps
    IN  20 * Abs(total * 125 - want) <= want

\* deviation < 5.0 for deviation = abs(actual_avg - target) / target * 100, with
\* actual_avg = total / (1024 * n) Gbps and the target in milli-Gbps, compared
\* as exact fractions: 1000 * total against 1024 * n * target, both over 8
WithinFivePercent(total, n, target_gbps) ==
    LET want == 128 * n * target_gbps
    IN  Abs(total * 125 - want) <= (want - 1) \div 20

\* deviation, rounded down to whole percent (the targets are multiples of
\* 0.1 Gbps, so want is a multiple of 100)
DeviationPercent(total, n, target_gbps) ==
    LET want == 128 * n * target_gbps
    IN  Abs(total * 125 - want) \div (want \div 100)

ValidateLogs(ls, target_gbps) ==
    LET bandwidths    == BwOf(ls)
        overall_stats == CalculateP95(bandwidths).value
        total         == SumSeq(bandwidths)
        regions       == {ls[i].region : i \in 1..Len(ls)}
        domains       == {ls[i].domain : i \in 1..Len(ls)}
    IN  IF ls = <<>>
        THEN [raised |-> "KeyError", value |-> [error |-> "avg"]]
        ELSE [raised |-> "",
              value |->
                [validation |->
                    [target_gbps |-> target_gbps,
                     actual_avg_gbps |-> MulDiv(overall_stats.avg, 1000, 1024),
                     actual_p95_gbps |-> MulDiv(overall_stats.p95, 1000, 1024),
                     deviation_percent |-> DeviationPercent(total, Len(ls), target_gbps),
                     passed |-> WithinFivePercent(total, Len(ls), target_gbps)],
                 overall |-> overall_stats,
                 by_region |->
                    [r \in regions |->
                        CalculateP95(BwOf(SelectSeq(ls, LAMBDA l : l.region = r))).value],
                 by_domain |->
                    [dm \in domains |->
                        CalculateP95(BwOf(SelectSeq(ls, LAMBDA l : l.domain = dm))).value]]]

---------------------------------------------------------------------------
(* BillingCalculator.calculate_95_billing *)

\* int(a * 100 / b) for b > 0 and a of either sign, by long division in base
\* 10 so that no product exceeds 10 * b
PercentOf(a, b) ==
    LET m  == Abs(a)
        r1 == (m % b) * 10
        r2 == (r1 % b) * 10
        p  == (m \div b) * 100 + (r1 \div b) * 10 + r2 \div b
    IN  IF a >= 0 THEN p ELSE -p

\* The result with a loss reported as no saving
BillingHidingLoss(bandwidth_curve, unit_price) ==
    LET p95_gbps == CalculateP95(bandwidth_curve).value.p95
    IN  IF bandwidth_curve = <<>>
        THEN [raised |-> "KeyError", value |-> [error |-> "p95"]]
        ELSE
        [raised |-> "",
         value |-> [p95_bandwidth_gbps |-> p95_gbps,
                    unit_price |-> unit_price,
                    monthly_cost |-> p95_gbps * unit_price,
                    total_flux_gb |-> SumSeq(bandwidth_curve) * 75,
                    flux_cost_comparison |-> SumSeq(bandwidth_curve) * 30,
                    saving |-> Max(0, SumSeq(bandwidth_curve) * 30 - p95_gbps * unit_price),
                    saving_percent |-> 0,
                    stats |-> CalculateP95(bandwidth_curve).value]]

\* The curve in milli-Gbps and unit_price in yuan per Gbps: costs in 1/1000
\* yuan, total_flux_gb (sum * 300 / 8) in 1/2000 GB, flux_cost (total_flux_gb
\* * 0.8) therefore 30 * sum, saving_percent in whole percent.  For the empty
\* list calculate_p95 returns the dict without "p95" and stats["p95"] raises.
Billing(bandwidth_curve, unit_price) ==
    LET stats         == CalculateP95(bandwidth_curve).value
        p95_gbps      == stats.p95
        monthly_cost  == p95_gbps * unit_price
        total_flux_gb == SumSeq(bandwidth_curve) * 75
        flux_cost     == (total_flux_gb * 2) \div 5
        saving        == flux_cost - monthly_cost
    IN  IF bandwidth_curve = <<>>
        THEN [raised |-> "KeyError", value |-> [error |-> "p95"]]
        ELSE [raised |-> "",
              value |-> [p95_bandwidth_gbps |-> p95_gbps,
                         unit_price |-> unit_price,
                         monthly_cost |-> monthly_cost,
                         total_flux_gb |-> total_flux_gb,
                         flux_cost_comparison |-> flux_cost,
                         saving |-> saving,
                         saving_percent |->
                            IF flux_cost > 0 THEN PercentOf(saving, flux_cost) ELSE 0,
                         stats |-> stats]]

---------------------------------------------------------------------------
(* LogPusher *)

\* if self.stats["total"] > 100
FailStopTotal == 100

\* The number of positions of a list of booleans holding b
CountOf(ok, b) == Cardinality({i \in DOMAIN ok : ok[i] = b})

\* The check giving up at a fail rate of one half already
FailStopAtHalf(st) == st.total > 100 /\ 2 * st.failed >= st.total

\* push_batch(log_entries, dry_run) on a pusher whose counters are st, ok[i]
\* telling whether the POST of entry i is answered with HTTP 200: the counters
\* afterwards, the dict returned (errors as the set of the failed indexes, from
\* 1) and the push_single calls made.  push_single returns success in a dry run
\* before it touches a counter.
PushBatch(st, log_entries, dry, ok) ==
    LET n == Len(log_entries)
        succeeded == [i \in 1..n |-> dry \/ ok[i]]
    IN  [stats |-> [st EXCEPT !.total = @ + n,
                              !.success = @ + (IF dry THEN 0 ELSE CountOf(ok, TRUE)),
                              !.failed = @ + (IF dry THEN 0 ELSE CountOf(ok, FALSE))],
         results |-> [success |-> CountOf(succeeded, TRUE),
                      failed |-> CountOf(succeeded, FALSE),
                      errors |-> {i \in 1..n : ~succeeded[i]}],
         posts |-> [i \in 1..n |-> [log |-> log_entries[i], ok |-> succeeded[i]]]]

\* The check push_all makes after every batch: fail_rate > 0.5 once more than
\* 100 entries were counted
FailStop(st) == st.total > FailStopTotal /\ 2 * st.failed > st.total

---------------------------------------------------------------------------
(* RealtimeScheduler *)

\* A naive local datetime is its wall time in ms and its fold attribute.
\* datetime.timestamp() in ms: as EpochOf, but a wall time the backward jump
\* repeats is read as its second occurrence when fold = 1
TimestampOf(d) ==
    IF d.fold = 1 /\ tz.jump < 0 /\ d.wall >= tz.at + tz.jump /\ d.wall < tz.at
    THEN d.wall - tz.jump
    ELSE EpochOf(d.wall)

\* datetime.fromtimestamp() of an instant in ms: fold = 1 in the hour the
\* backward jump repeats
FromTimestamp(epoch_ms) ==
    [wall |-> LocalOf(epoch_ms),
     fold |-> IF tz.jump < 0 /\ epoch_ms >= tz.at /\ epoch_ms < tz.at - tz.jump
              THEN 1 ELSE 0]

\* int() of a number of seconds given in ms: towards zero
IntSeconds(ms) == IF ms >= 0 THEN ms \div 1000 ELSE -((-ms) \div 1000)

\* _align_to_interval(dt)
AlignToInterval(c, d) ==
    LET interval          == c.interval_seconds
        timestamp_s       == IntSeconds(TimestampOf(d))
        aligned_timestamp == (timestamp_s \div interval) * interval
    IN  FromTimestamp(aligned_timestamp * 1000)

\* The skip check never finding the timestamp
NeverPushed(st, timestamp_ms) == FALSE

\* timestamp_ms in self.state["pushed_timestamps"]
AlreadyPushed(st, timestamp_ms) ==
    \E i \in DOMAIN st.pushed_timestamps : st.pushed_timestamps[i] = timestamp_ms

\* The state updated whatever push_batch returned
PushAttempted(results) == TRUE

\* if result["success"] > 0
PushSucceeded(results) == results.success > 0

\* The update of the state after a push: the timestamp appended, the index advanced
Recorded(st, timestamp_ms) ==
    [pushed_timestamps |-> Append(st.pushed_timestamps, timestamp_ms),
     current_index |-> st.current_index + 1]

\* _save_state: the state written to the file
Saved(st) == [exists |-> TRUE, content |-> st]

---------------------------------------------------------------------------
(* Configurations and idle values *)

\* The realism.* and dimensions.* part of a configuration with the usual ranges:
\* rates in percent, origin_fail_rate and anomaly_probability in 1/1000
UsualSettings ==
    [burst_probability |-> 5,
     cache_hit_rate |-> <<85, 95>>,
     avg_object_size_kb |-> <<200, 2048>>,
     origin_fail_rate |-> <<1, 10>>,
     anomaly_probability |-> 1,
     tenant_id |-> "tenant-1",
     domains |-> <<"cdn-a.example.com", "cdn-b.example.com">>,
     regions |-> <<[country |-> "CN", region |-> "beijing", weight |-> 60],
                   [country |-> "US", region |-> "california", weight |-> 40]>>]

\* The widest ranges the configuration allows, and a certain origin outage
WideSettings ==
    [burst_probability |-> 5,
     cache_hit_rate |-> <<0, 100>>,
     avg_object_size_kb |-> <<200, 2048>>,
     origin_fail_rate |-> <<0, 1000>>,
     anomaly_probability |-> 1000,
     tenant_id |-> "tenant-1",
     domains |-> <<"cdn-a.example.com", "cdn-b.example.com">>,
     regions |-> <<[country |-> "CN", region |-> "beijing", weight |-> 60],
                   [country |-> "US", region |-> "california", weight |-> 40]>>]

\* A host whose clocks are not moved, one that moves them forward by an hour at
\* 02:00 of the first day, and one that moves them back by an hour then
FixedZone == [at |-> 0, jump |-> 0]

HostZones ==
    {FixedZone, [at |-> 7200000, jump |-> 3600000], [at |-> 7200000, jump |-> -3600000]}

\* The target.* and time.* part of a configuration; the window starts on a Monday
TimeOf(target_gbps, duration_days, interval_seconds) ==
    [target_gbps |-> target_gbps, duration_days |-> duration_days,
     interval_seconds |-> interval_seconds, start_date |-> 0]

CurveConfigs ==
    {Merge(TimeOf(t, d, s), UsualSettings) : t \in Targets, d \in 1..MaxDays, s \in Intervals}

Configs ==
    {c \in CurveConfigs :
        \/ c.interval_seconds \div 60 = 0
        \/ TotalPoints(c.duration_days, c.interval_seconds) <= MaxPoints}

NoMetrics ==
    [k \in {"bw", "flux", "bs_bw", "bs_flux", "req_num", "hit_num", "bs_num",
            "bs_fail_num", "hit_flux", "http_code_2xx", "http_code_3xx",
            "http_code_4xx", "http_code_5xx", "bs_http_code_2xx",
            "bs_http_code_3xx", "bs_http_code_4xx", "bs_http_code_5xx"} |-> 0]

NoDraws ==
    [u_maintenance |-> 500, spike_5xx_share |-> 5, u_outage |-> 500, fail_rate |-> 30,
     u_purge |-> 500, new_hit_rate |-> 50, u_abuse |-> 500, spike_4xx_share |-> 20]

NoResult == [raised |-> "", value |-> [error |-> "not called"]]

NoSummary == [total_points |-> 0]

NoReport == [raised |-> "", value |-> [error |-> "not called"]]

CurveIdle == curve = <<>> /\ raw = <<>>

StatIdle == values = <<>> /\ result = NoResult

RecIdle ==
    /\ bandwidth = 0
    /\ timestamp = 0
    /\ metrics = NoMetrics
    /\ entry = NoMetrics
    /\ fired = NoDraws

MonthIdle == pos = 0 /\ summary = NoSummary /\ logs = <<>> /\ report = NoReport

HostIdle == tz = FixedZone /\ raised = ""

NoBilling == [raised |-> "", value |-> [error |-> "not called"]]

NoStats == [total |-> 0, success |-> 0, failed |-> 0, retries |-> 0]

PushIdle ==
    /\ dry_run = FALSE
    /\ pusher_stats = NoStats
    /\ before = NoStats
    /\ sent = <<>>
    /\ batch_start = 0
    /\ calls = 0

NoDatetime == [wall |-> 0, fold |-> 0]

\* _load_state without a state file
FreshState == [pushed_timestamps |-> <<>>, current_index |-> 0]

\* No state file on disk
NoStateFile == [exists |-> FALSE, content |-> FreshState]

\* self.bandwidth_curve = None
NoCurve == [is_none |-> TRUE, samples |-> <<>>]

\* _load_state
LoadState(file) == IF file.exists THEN file.content ELSE FreshState

SchedIdle ==
    /\ now = 0
    /\ dt = NoDatetime
    /\ aligned = NoDatetime
    /\ state = FreshState
    /\ state_file = NoStateFile
    /\ sched_curve = NoCurve
    /\ returned = "not called"
    /\ history = <<>>

SvcIdle == billing = NoBilling /\ PushIdle /\ SchedIdle

---------------------------------------------------------------------------
(* BandwidthCurveGenerator.generate, on its own *)

InitCurve ==
    /\ HostIdle /\ SvcIdle
    /\ cfg \in Configs
    /\ pc = "generate"
    /\ CurveIdle /\ StatIdle /\ RecIdle /\ MonthIdle

\* One iteration of generate's loop
GenSample ==
    /\ pc = "generate"
    /\ cfg.interval_seconds \div 60 > 0
    /\ "burst_probability" \in DOMAIN cfg
    /\ Len(curve) < TotalPoints(cfg.duration_days, cfg.interval_seconds)
    /\ \E noise \in NoiseDraws, u \in UnitDraws, burst \in BurstDraws :
          curve' = Append(curve, SampleBw(cfg, Len(curve), noise, BurstFactor(cfg, u, burst)))
    /\ UNCHANGED <<cfg, tz, svcVars, raised, pc, raw, statVars, recVars, monthVars>>

\* The loop is over: curve = self._adjust_to_target(curve); return curve
GenAdjust ==
    /\ pc = "generate"
    /\ cfg.interval_seconds \div 60 > 0
    /\ Len(curve) = TotalPoints(cfg.duration_days, cfg.interval_seconds)
    /\ raw' = curve
    /\ curve' = AdjustToTarget(cfg, curve)
    /\ pc' = "generated"
    /\ UNCHANGED <<cfg, tz, svcVars, raised, statVars, recVars, monthVars>>

\* total_points = ... // (interval_seconds // 60) with an interval below a minute
GenDivideByZero ==
    /\ pc = "generate"
    /\ cfg.interval_seconds \div 60 = 0
    /\ raised' = "ZeroDivisionError"
    /\ pc' = "raised"
    /\ UNCHANGED <<cfg, tz, svcVars, curveVars, statVars, recVars, monthVars>>

\* self.config["realism"]["burst_probability"] in the first iteration of the
\* loop, when the configuration has no such key
GenMissingKey ==
    /\ pc = "generate"
    /\ cfg.interval_seconds \div 60 > 0
    /\ Len(curve) < TotalPoints(cfg.duration_days, cfg.interval_seconds)
    /\ "burst_probability" \notin DOMAIN cfg
    /\ raised' = "KeyError"
    /\ pc' = "raised"
    /\ UNCHANGED <<cfg, tz, svcVars, curveVars, statVars, recVars, monthVars>>

NextCurve == GenSample \/ GenAdjust \/ GenDivideByZero

SpecCurve == InitCurve /\ [][NextCurve]_vars

---------------------------------------------------------------------------
(* BandwidthCurveGenerator.generate over a week of daily samples, for windows
   starting on any day of the week *)

\* time.start_date as days since a Monday: every day of the week
StartDates == 0..6

WeekConfigs ==
    {[Merge(TimeOf(20000, 7, 86400), UsualSettings)
         EXCEPT !.start_date = s, !.burst_probability = 0] : s \in StartDates}

InitWeek ==
    /\ HostIdle /\ SvcIdle
    /\ cfg \in WeekConfigs
    /\ pc = "generate"
    /\ CurveIdle /\ StatIdle /\ RecIdle /\ MonthIdle

NextWeek == GenSample \/ GenAdjust

SpecWeek == InitWeek /\ [][NextWeek]_vars

---------------------------------------------------------------------------
(* BandwidthCurveGenerator._adjust_to_target, on curves of any length *)

MaxCurve == 6

\* Samples in milli-Gbps
CurveValues == {100, 150, 300}

\* Curves of 1 to MaxCurve samples, and a day of 300-second samples (taken
\* with the 300-second configurations)
AdjustCurves ==
    UNION {[1..n -> CurveValues] : n \in 1..MaxCurve} \cup {[i \in 1..288 |-> 289 - i]}

\* 288, 4, 3 and 2 points per day
AdjustConfigs ==
    {Merge(TimeOf(t, 1, s), UsualSettings) : t \in {100, 200}, s \in {300, 21600, 28800, 43200}}

InitAdjust ==
    /\ HostIdle /\ SvcIdle
    /\ cfg \in AdjustConfigs
    /\ pc = "adjust"
    /\ curve \in AdjustCurves
    /\ Len(curve) > MaxCurve => cfg.interval_seconds = 300
    /\ raw = <<>>
    /\ StatIdle /\ RecIdle /\ MonthIdle

CallAdjust ==
    /\ pc = "adjust"
    /\ raw' = curve
    /\ curve' = AdjustToTarget(cfg, curve)
    /\ pc' = "adjusted"
    /\ UNCHANGED <<cfg, tz, svcVars, raised, statVars, recVars, monthVars>>

NextAdjust == CallAdjust

SpecAdjust == InitAdjust /\ [][NextAdjust]_vars

---------------------------------------------------------------------------
(* Percentile95Validator.calculate_p95, on lists of bounded length *)

MaxLen == 4

SampleValues == {1, 2, 3}

RECURSIVE SeqsUpTo(_)
SeqsUpTo(n) ==
    IF n = 0 THEN {<<>>}
    ELSE LET shorter == SeqsUpTo(n - 1)
         IN  shorter \cup {Append(q, v) : q \in {r \in shorter : Len(r) = n - 1},
                                           v \in SampleValues}

\* Longer inputs: n, n - 1, ..., 1 for a few lengths n, a day of 300-second
\* samples among them
RampValues == {[i \in 1..n |-> n + 1 - i] : n \in {20, 40, 100, 288}}

InitStats ==
    /\ HostIdle /\ SvcIdle
    /\ cfg = Merge(TimeOf(20000, 1, 300), UsualSettings)
    /\ pc = "call"
    /\ values \in SeqsUpTo(MaxLen) \cup RampValues
    /\ result = NoResult
    /\ CurveIdle /\ RecIdle /\ MonthIdle

CallCalculateP95 ==
    /\ pc = "call"
    /\ result' = CalculateP95(values)
    /\ pc' = "returned"
    /\ UNCHANGED <<cfg, tz, svcVars, raised, values, curveVars, recVars, monthVars>>

NextStats == CallCalculateP95

SpecStats == InitStats /\ [][NextStats]_vars

---------------------------------------------------------------------------
(* MetricsDerivator.derive followed by AnomalyInjector.inject, and inject *)
(* on records that need not come from derive                             *)

\* bandwidth_gbps arguments, in milli-Gbps
Bandwidths == {1, 100, 20000}

\* timestamp_ms arguments: 00:00 and 03:00 local time of the first day
Timestamps == {0, 10800000}

RecordConfigs ==
    {Merge(TimeOf(20000, 1, 300), UsualSettings), Merge(TimeOf(20000, 1, 300), WideSettings)}

\* Records with non-negative counts that derive does not produce: the request
\* and origin counts and the 2xx bucket are free, the rest is fixed
GivenRecords ==
    {[NoMetrics EXCEPT !.bw = 1024, !.flux = 1001, !.bs_flux = 101, !.hit_flux = 900,
                       !.req_num = r, !.hit_num = r - b, !.bs_num = b,
                       !.bs_fail_num = 7,
                       !.http_code_2xx = c, !.http_code_3xx = 3, !.http_code_4xx = 4,
                       !.http_code_5xx = 5,
                       !.bs_http_code_2xx = b, !.bs_http_code_5xx = 2] :
        r \in {1000, 1001}, b \in {0, 1000}, c \in {0, 10, 800}}

InitRecord ==
    /\ HostIdle /\ SvcIdle
    /\ cfg \in RecordConfigs
    /\ timestamp \in Timestamps
    /\ \/ /\ pc = "derive"
          /\ bandwidth \in Bandwidths
          /\ metrics = NoMetrics
       \/ /\ pc = "given"
          /\ bandwidth = 0
          /\ metrics \in GivenRecords
    /\ entry = NoMetrics
    /\ fired = NoDraws
    /\ CurveIdle /\ StatIdle /\ MonthIdle

CallDerive ==
    /\ pc = "derive"
    /\ \E d \in DeriveDraws(cfg) :
          metrics' = Derive(bandwidth, cfg.interval_seconds, d)
    /\ pc' = "derived"
    /\ UNCHANGED <<cfg, tz, svcVars, raised, bandwidth, timestamp, entry, fired, curveVars, statVars, monthVars>>

CallInject ==
    /\ pc \in {"derived", "given"}
    /\ \E d \in InjectDraws(cfg, timestamp) :
          /\ metrics' = Inject(cfg, metrics, timestamp, d)
          /\ fired' = d
    /\ entry' = metrics
    /\ pc' = "injected"
    /\ UNCHANGED <<cfg, tz, svcVars, raised, bandwidth, timestamp, curveVars, statVars, monthVars>>

NextRecord == CallDerive \/ CallInject

SpecRecord == InitRecord /\ [][NextRecord]_vars

---------------------------------------------------------------------------
(* generate_full_month followed by validate_logs on its logs *)

\* One region carrying all the traffic and two domains; two regions and one domain
OneRegion ==
    [UsualSettings EXCEPT !.burst_probability = 0,
                          !.regions = <<[country |-> "CN", region |-> "beijing", weight |-> 100]>>]

TwoRegions ==
    [UsualSettings EXCEPT !.burst_probability = 0,
                          !.domains = <<"cdn-a.example.com">>]

\* 20 Gbps over one day, sampled every 8 hours
CompleteConfigs ==
    {Merge(TimeOf(20000, 1, 28800), OneRegion), Merge(TimeOf(20000, 1, 28800), TwoRegions)}

\* Keys a configuration file may lack, one for each place that reads the
\* configuration: the constructors, generate, derive, inject and distribute
MissingKeys ==
    {"regions", "burst_probability", "cache_hit_rate", "anomaly_probability", "tenant_id"}

MonthConfigs ==
    CompleteConfigs
    \cup {Without(Merge(TimeOf(20000, 1, 28800), TwoRegions), k) : k \in MissingKeys}

\* The draws the runs take for derive and inject: of derive's, the low end of
\* every range; of inject's, no perturbation or all that the hour allows
DayDeriveDraws(c) ==
    {d \in DeriveDraws(c) :
        /\ d.avg_obj_size_kb = c.avg_object_size_kb[1]
        /\ d.bs_fail_rate = c.origin_fail_rate[1]
        /\ d.s2xx = 75 /\ d.s4xx = 5 /\ d.s3xx = 2
        /\ d.o2xx = 85 /\ d.o4xx = 2 /\ d.o3xx = 1}

MonthDeriveDraws(c) == {d \in DayDeriveDraws(c) : d.cache_hit_rate = c.cache_hit_rate[1]}

MonthInjectDraws(c, timestamp_ms) ==
    {d \in InjectDraws(c, timestamp_ms) :
        /\ d.u_outage = d.u_purge /\ d.u_purge = d.u_abuse
        /\ d.spike_5xx_share = 5 /\ d.fail_rate = 30
        /\ d.new_hit_rate = 50 /\ d.spike_4xx_share = 20}

\* CDNLogGenerator(config): the keys the constructors read
Constructed(c) == {"target_gbps", "domains", "regions"} \subseteq DOMAIN c

\* The state after CDNLogGenerator(config), or after its KeyError
InitMonth ==
    /\ tz \in HostZones
    /\ SvcIdle
    /\ cfg \in MonthConfigs
    /\ raised = IF Constructed(cfg) THEN "" ELSE "KeyError"
    /\ pc = IF Constructed(cfg) THEN "generate" ELSE "raised"
    /\ CurveIdle /\ StatIdle /\ RecIdle /\ MonthIdle

\* Statistics of the curve; the loop over the samples starts
MonthSummary ==
    /\ pc = "generated"
    /\ summary' = Summary(curve, cfg.interval_seconds)
    /\ pos' = 0
    /\ logs' = <<>>
    /\ pc' = "month_derive"
    /\ UNCHANGED <<cfg, tz, svcVars, raised, report, curveVars, statVars, recVars>>

\* The realism.* keys derive reads
DeriveKeys == {"cache_hit_rate", "avg_object_size_kb", "origin_fail_rate"}

\* derive's self.config["realism"][...] when the configuration lacks the key
MonthDeriveMissingKey ==
    /\ pc = "month_derive"
    /\ pos < Len(curve)
    /\ ~(DeriveKeys \subseteq DOMAIN cfg)
    /\ raised' = "KeyError"
    /\ pc' = "raised"
    /\ UNCHANGED <<cfg, tz, svcVars, curveVars, statVars, recVars, monthVars>>

\* metrics = self.metrics_deriver.derive(bw_gbps, interval_seconds)
MonthDerive ==
    /\ pc = "month_derive"
    /\ pos < Len(curve)
    /\ DeriveKeys \subseteq DOMAIN cfg
    /\ bandwidth' = curve[pos + 1]
    /\ timestamp' = TimestampMs(pos, cfg.interval_seconds)
    /\ \E d \in MonthDeriveDraws(cfg) :
          metrics' = Derive(curve[pos + 1], cfg.interval_seconds, d)
    /\ pc' = "month_inject"
    /\ UNCHANGED <<cfg, tz, svcVars, raised, entry, fired, curveVars, statVars, monthVars>>

\* inject's self.config["realism"]["anomaly_probability"] when the
\* configuration lacks the key: the record is as derive returned it
MonthInjectMissingKey ==
    /\ pc = "month_inject"
    /\ "anomaly_probability" \notin DOMAIN cfg
    /\ raised' = "KeyError"
    /\ pc' = "raised"
    /\ UNCHANGED <<cfg, tz, svcVars, curveVars, statVars, recVars, monthVars>>

\* metrics = self.anomaly_injector.inject(metrics, timestamp_ms)
MonthInject ==
    /\ pc = "month_inject"
    /\ "anomaly_probability" \in DOMAIN cfg
    /\ \E d \in MonthInjectDraws(cfg, timestamp) :
          /\ metrics' = Inject(cfg, metrics, timestamp, d)
          /\ fired' = d
    /\ entry' = metrics
    /\ pc' = "month_distribute"
    /\ UNCHANGED <<cfg, tz, svcVars, raised, bandwidth, timestamp, curveVars, statVars, monthVars>>

\* distribute's self.config["dimensions"]["tenant_id"] for the first region,
\* when the configuration lacks the key
MonthDistributeMissingKey ==
    /\ pc = "month_distribute"
    /\ "tenant_id" \notin DOMAIN cfg
    /\ raised' = "KeyError"
    /\ pc' = "raised"
    /\ UNCHANGED <<cfg, tz, svcVars, curveVars, statVars, recVars, monthVars>>

\* The call's entries replacing the list instead of extending it
MonthDistributeOverwriting ==
    /\ pc = "month_distribute"
    /\ "tenant_id" \in DOMAIN cfg
    /\ \E dd \in DistributeDraws(cfg) :
          logs' = Distribute(cfg, metrics, timestamp, dd)
    /\ pos' = pos + 1
    /\ pc' = IF pos + 1 < Len(curve) THEN "month_derive" ELSE "month_done"
    /\ UNCHANGED <<cfg, tz, svcVars, raised, summary, report, curveVars, statVars, recVars>>

\* logs = self.distributor.distribute(metrics, timestamp_ms); all_logs.extend(logs)
MonthDistribute ==
    /\ pc = "month_distribute"
    /\ "tenant_id" \in DOMAIN cfg
    /\ \E dd \in DistributeDraws(cfg) :
          logs' = logs \o Distribute(cfg, metrics, timestamp, dd)
    /\ pos' = pos + 1
    /\ pc' = IF pos + 1 < Len(curve) THEN "month_derive" ELSE "month_done"
    /\ UNCHANGED <<cfg, tz, svcVars, raised, summary, report, curveVars, statVars, recVars>>

\* Percentile95Validator.validate_logs(logs, target)
CallValidate ==
    /\ pc = "month_done"
    /\ report' = ValidateLogs(logs, cfg.target_gbps)
    /\ pc' = "validated"
    /\ UNCHANGED <<cfg, tz, svcVars, raised, pos, summary, logs, curveVars, statVars, recVars>>

NextMonth ==
    \/ GenSample \/ GenAdjust \/ GenMissingKey
    \/ MonthSummary
    \/ MonthDerive \/ MonthDeriveMissingKey
    \/ MonthInject \/ MonthInjectMissingKey
    \/ MonthDistribute \/ MonthDistributeMissingKey
    \/ CallValidate

SpecMonth == InitMonth /\ [][NextMonth]_vars

---------------------------------------------------------------------------
(* The same run over one day of 300-second samples: 288 samples, every sample
   taking the same draws *)

DayConfigs ==
    {Merge(TimeOf(20000, 1, 300), OneRegion), Merge(TimeOf(20000, 1, 300), TwoRegions)}

\* The inject draws at timestamp_ms when nothing fires, or all that can
InjectOutcome(c, timestamp_ms, fire) ==
    CHOOSE d \in MonthInjectDraws(c, timestamp_ms) :
        /\ (d.u_outage = 0) = fire
        /\ (d.u_maintenance = 0) = (fire /\ HourOf(timestamp_ms) \in {2, 3, 4})

\* all_logs after the loop of generate_full_month has done samples lo..hi of
\* the curve (0-based), by halves
RECURSIVE AllLogs(_, _, _, _, _, _, _)
AllLogs(c, cv, lo, hi, d, fire, dd) ==
    IF lo > hi THEN <<>>
    ELSE IF lo = hi
    THEN LET timestamp_ms == TimestampMs(lo, c.interval_seconds)
             derived  == Derive(cv[lo + 1], c.interval_seconds, d)
             injected == Inject(c, derived, timestamp_ms, InjectOutcome(c, timestamp_ms, fire))
         IN  Distribute(c, injected, timestamp_ms, dd)
    ELSE LET mid == (lo + hi) \div 2
         IN  AllLogs(c, cv, lo, mid, d, fire, dd) \o AllLogs(c, cv, mid + 1, hi, d, fire, dd)

InitDay ==
    /\ HostIdle /\ SvcIdle
    /\ cfg \in DayConfigs
    /\ pc = "generate"
    /\ CurveIdle /\ StatIdle /\ RecIdle /\ MonthIdle

\* bandwidth_curve = self.bw_generator.generate(...) and the statistics of it
DayGenerate ==
    /\ pc = "generate"
    /\ \E noise \in NoiseDraws, u \in UnitDraws, burst \in BurstDraws :
          /\ raw' = [i \in 1..TotalPoints(cfg.duration_days, cfg.interval_seconds) |->
                        SampleBw(cfg, i - 1, noise, BurstFactor(cfg, u, burst))]
          /\ curve' = AdjustToTarget(cfg, raw')
    /\ summary' = Summary(curve', cfg.interval_seconds)
    /\ pc' = "day_generated"
    /\ UNCHANGED <<cfg, tz, svcVars, raised, pos, logs, report, statVars, recVars>>

\* The loop: derive, inject and distribute every sample
DayLogs ==
    /\ pc = "day_generated"
    /\ \E d \in DayDeriveDraws(cfg), fire \in BOOLEAN, dd \in DistributeDraws(cfg) :
          logs' = AllLogs(cfg, curve, 0, Len(curve) - 1, d, fire, dd)
    /\ pos' = Len(curve)
    /\ pc' = "month_done"
    /\ UNCHANGED <<cfg, tz, svcVars, raised, summary, report, curveVars, statVars, recVars>>

NextDay == DayGenerate \/ DayLogs \/ CallValidate

SpecDay == InitDay /\ [][NextDay]_vars

---------------------------------------------------------------------------
(* MultiDimensionDistributor.distribute, on its own *)

ThreeRegions ==
    [UsualSettings EXCEPT
        !.regions = <<[country |-> "CN", region |-> "beijing", weight |-> 50],
                      [country |-> "US", region |-> "california", weight |-> 30],
                      [country |-> "JP", region |-> "tokyo", weight |-> 20]>>]

DistributeConfigs ==
    {Merge(TimeOf(20000, 1, 300), x) : x \in {OneRegion, TwoRegions, ThreeRegions}}

\* The records handed to distribute: all zero, one of 9000 requests, and records
\* derive returns
SourceRecords ==
    {NoMetrics,
     [NoMetrics EXCEPT !.bw = 20480, !.flux = 95, !.bs_bw = 2048, !.bs_flux = 9,
                       !.hit_flux = 86, !.req_num = 9000, !.hit_num = 8101,
                       !.bs_num = 899, !.bs_fail_num = 7, !.http_code_2xx = 8001,
                       !.http_code_3xx = 333, !.http_code_4xx = 555,
                       !.http_code_5xx = 111, !.bs_http_code_2xx = 801,
                       !.bs_http_code_3xx = 33, !.bs_http_code_4xx = 55,
                       !.bs_http_code_5xx = 10]}
    \cup {Derive(b, 300, d) : b \in {100, 20000}, d \in DayDeriveDraws(UsualSettings)}

InitDistribute ==
    /\ HostIdle /\ SvcIdle
    /\ cfg \in DistributeConfigs
    /\ pc = "distribute"
    /\ timestamp \in Timestamps
    /\ metrics \in SourceRecords
    /\ entry = metrics
    /\ bandwidth = 0
    /\ fired = NoDraws
    /\ CurveIdle /\ StatIdle /\ MonthIdle

\* logs = distribute(metrics, timestamp_ms)
CallDistribute ==
    /\ pc = "distribute"
    /\ \E dd \in DistributeDraws(cfg) :
          logs' = Distribute(cfg, metrics, timestamp, dd)
    /\ pc' = "distributed"
    /\ UNCHANGED <<cfg, tz, svcVars, raised, pos, summary, report, curveVars, statVars, recVars>>

NextDistribute == CallDistribute

SpecDistribute == InitDistribute /\ [][NextDistribute]_vars

---------------------------------------------------------------------------
(* Percentile95Validator.validate_logs, on given logs *)

MaxLogs == 2

\* bw in Mbps around 19 Gbps, 20 Gbps and 21 Gbps: 5% below and above 20 Gbps
\* are 19456 and 21504
GivenBw == {19455, 19456, 19457, 20480, 21503, 21504, 21505}

GivenLogs ==
    {Merge([tenantId |-> "tenant-1", start_time |-> 0, country |-> "CN",
            region |-> place[1], domain |-> place[2], interval |-> 300],
           [NoMetrics EXCEPT !.bw = bw]) :
        bw \in GivenBw,
        place \in {<<"beijing", "cdn-a.example.com">>, <<"shanghai", "cdn-b.example.com">>}}

InitValidate ==
    /\ HostIdle /\ SvcIdle
    /\ cfg = Merge(TimeOf(20000, 1, 300), UsualSettings)
    /\ pc = "month_done"
    /\ logs \in UNION {[1..n -> GivenLogs] : n \in 0..MaxLogs}
    /\ pos = 0 /\ summary = NoSummary /\ report = NoReport
    /\ CurveIdle /\ StatIdle /\ RecIdle

NextValidate == CallValidate

SpecValidate == InitValidate /\ [][NextValidate]_vars

---------------------------------------------------------------------------
(* BillingCalculator.calculate_95_billing, on curves of bounded length and on
   a day of 300-second samples *)

\* unit_price in yuan per Gbps: the default and two others
UnitPrices == {1, 100, 120}

\* Curves of 0 to MaxLen samples of 0, 5, 10 and 15 Gbps, a day at a constant
\* 10 Gbps and a day of samples falling from 28.8 Gbps
BillingCurves ==
    {[i \in 1..Len(q) |-> 5000 * (q[i] - 1)] : q \in SeqsUpTo(MaxLen)}
    \cup {[i \in 1..n |-> 15000] : n \in 1..MaxLen}
    \cup {[i \in 1..288 |-> 10000], [i \in 1..288 |-> 100 * (289 - i)]}

InitBilling ==
    /\ HostIdle
    /\ cfg = Merge(TimeOf(20000, 1, 300), UsualSettings)
    /\ pc = "call"
    /\ values \in BillingCurves
    /\ result = NoResult
    /\ billing = NoBilling /\ PushIdle /\ SchedIdle
    /\ CurveIdle /\ RecIdle /\ MonthIdle

\* billing = BillingCalculator.calculate_95_billing(values, unit_price)
CallBilling ==
    /\ pc = "call"
    /\ \E unit_price \in UnitPrices : billing' = Billing(values, unit_price)
    /\ pc' = "billed"
    /\ UNCHANGED <<cfg, tz, raised, pushVars, schedVars, statVars, curveVars, recVars,
                   monthVars>>

NextBilling == CallBilling

SpecBilling == InitBilling /\ [][NextBilling]_vars

---------------------------------------------------------------------------
(* LogPusher: push_batch and push_all called one after the other on one pusher *)

MaxCalls == 2

MaxBatches == 3

\* Batches of up to MaxDrawn entries meet every combination of answers
MaxDrawn == 2

\* api.batch_size
BatchSizes == {2, 60}

\* The entry of sample i of a run; the pusher posts it as it is
PushEntry(i) == [start_time |-> 300000 * (i - 1), region |-> "beijing", bw |-> 20480]

\* The lists handed to the pusher: none, 3, 5 and 150 entries
PushInputs == {[i \in 1..n |-> PushEntry(i)] : n \in {0, 3, 5, 150}}

PusherConfigs ==
    {Merge(Merge(TimeOf(20000, 1, 300), UsualSettings), [batch_size |-> b]) : b \in BatchSizes}

\* The answers to the POSTs of n entries, TRUE for HTTP 200: every combination
\* for a short batch; for a longer one all succeed, all fail, only the first
\* succeeds, or every second one fails
PostOutcomes(n) ==
    IF n <= MaxDrawn
    THEN [1..n -> BOOLEAN]
    ELSE {[i \in 1..n |-> TRUE], [i \in 1..n |-> FALSE],
          [i \in 1..n |-> i = 1], [i \in 1..n |-> i % 2 = 1]}

InitPusher ==
    /\ HostIdle /\ SvcIdle
    /\ cfg \in PusherConfigs
    /\ pc = "idle"
    /\ CurveIdle /\ StatIdle /\ RecIdle /\ MonthIdle

PusherFree == pc \in {"idle", "pushed_batch", "pushed_all"} /\ calls < MaxCalls

\* pusher.push_batch(log_entries, dry_run)
CallPushBatch ==
    /\ PusherFree
    /\ \E log_entries \in PushInputs, dry \in BOOLEAN :
          \E ok \in PostOutcomes(Len(log_entries)) :
              LET call == PushBatch(pusher_stats, log_entries, dry, ok)
              IN  /\ logs' = log_entries
                  /\ dry_run' = dry
                  /\ before' = pusher_stats
                  /\ pusher_stats' = call.stats
                  /\ sent' = call.posts
    /\ batch_start' = 0
    /\ calls' = calls + 1
    /\ pc' = "pushed_batch"
    /\ UNCHANGED <<cfg, tz, raised, billing, schedVars, pos, summary, report, curveVars,
                   statVars, recVars>>

\* pusher.push_all(all_logs, dry_run), up to the batch loop
CallPushAll ==
    /\ PusherFree
    /\ \E all_logs \in PushInputs, dry \in BOOLEAN :
          /\ Len(all_logs) <= MaxBatches * cfg.batch_size
          /\ logs' = all_logs
          /\ dry_run' = dry
    /\ before' = pusher_stats
    /\ sent' = <<>>
    /\ batch_start' = 0
    /\ calls' = calls + 1
    /\ pc' = "push_all"
    /\ UNCHANGED <<cfg, tz, raised, billing, schedVars, pusher_stats, pos, summary, report,
                   curveVars, statVars, recVars>>

\* One iteration of push_all's loop: the batch is pushed, then the fail rate
\* is looked at
PushAllBatch ==
    /\ pc = "push_all"
    /\ batch_start < Len(logs)
    /\ LET batch == Slice(logs, batch_start, batch_start + cfg.batch_size)
       IN  \E ok \in PostOutcomes(Len(batch)) :
              LET call == PushBatch(pusher_stats, batch, dry_run, ok)
              IN  /\ pusher_stats' = call.stats
                  /\ sent' = sent \o call.posts
                  /\ pc' = IF FailStop(call.stats) THEN "pushed_all" ELSE "push_all"
    /\ batch_start' = batch_start + cfg.batch_size
    /\ UNCHANGED <<cfg, tz, raised, billing, schedVars, dry_run, before, calls, monthVars,
                   curveVars, statVars, recVars>>

\* The loop is over: return self.stats
PushAllReturn ==
    /\ pc = "push_all"
    /\ batch_start >= Len(logs)
    /\ pc' = "pushed_all"
    /\ UNCHANGED <<cfg, tz, raised, svcVars, monthVars, curveVars, statVars, recVars>>

NextPusher == CallPushBatch \/ CallPushAll \/ PushAllBatch \/ PushAllReturn

SpecPusher == InitPusher /\ [][NextPusher]_vars

---------------------------------------------------------------------------
(* RealtimeScheduler._align_to_interval, called on a time and again on its
   result; instants are in ms since 1970-01-01 00:00:00 local time, the day on
   which the host zones move their clocks *)

\* time.interval_seconds
AlignIntervals == {1, 7, 300, 3600}

\* Instants before and after the epoch and around 02:00, 14:03:27 and 14:07:56
Instants ==
    {-3600500, -301000, -300500, -300000, -1000, -500, -1, 0, 1, 999, 1000, 299999,
     300000, 3599999, 3600000, 5400000, 7199999, 7200000, 9000000, 10800000,
     12600000, 50607000, 50876000, 50700000}

AlignConfigs ==
    {Merge(TimeOf(20000, 1, s), UsualSettings) : s \in AlignIntervals}

InitAlign ==
    /\ tz \in HostZones
    /\ raised = ""
    /\ cfg \in AlignConfigs
    /\ pc = "align"
    /\ now \in Instants
    /\ dt = FromTimestamp(now)
    /\ aligned = NoDatetime
    /\ state = FreshState /\ state_file = NoStateFile /\ sched_curve = NoCurve
    /\ returned = "not called" /\ history = <<>>
    /\ billing = NoBilling /\ PushIdle
    /\ CurveIdle /\ StatIdle /\ RecIdle /\ MonthIdle

\* aligned = self._align_to_interval(dt)
CallAlign ==
    /\ pc = "align"
    /\ aligned' = AlignToInterval(cfg, dt)
    /\ pc' = "aligned"
    /\ UNCHANGED <<cfg, tz, raised, billing, pushVars, now, dt, state, state_file,
                   sched_curve, returned, history, curveVars, statVars, recVars,
                   monthVars>>

\* aligned = self._align_to_interval(aligned)
CallAlignAgain ==
    /\ pc = "aligned"
    /\ dt' = aligned
    /\ aligned' = AlignToInterval(cfg, aligned)
    /\ pc' = "realigned"
    /\ UNCHANGED <<cfg, tz, raised, billing, pushVars, now, state, state_file,
                   sched_curve, returned, history, curveVars, statVars, recVars,
                   monthVars>>

NextAlign == CallAlign \/ CallAlignAgain

SpecAlign == InitAlign /\ [][NextAlign]_vars

---------------------------------------------------------------------------
(* RealtimeScheduler: run_once called again and again on one scheduler while
   the clock moves on; the window is one day of three 8-hour samples *)

MaxRuns == 4

\* datetime.now(), in ms: in the first interval twice, at the start of the
\* second and the third and of the one after the window
SchedInstants == {0, 100000, 28800000, 57600000, 86400000}

SchedConfigs == {Merge(TimeOf(20000, 1, 28800), TwoRegions)}

\* The jitters of one distribute call: the upper end for every region
SchedDistributeDraws(c) ==
    {dd \in DistributeDraws(c) : \A r \in DOMAIN dd : dd[r].jitter = 110}

\* The noise of a curve that is generated; no draw when the curve exists
SchedCurveDraws(cv) == IF cv.is_none THEN NoiseDraws ELSE {408}

\* curve_gen.generate(duration_days, interval_seconds) of a configuration
\* without bursts: every sample with the same noise, then the calibration
GeneratedCurve(c, noise) ==
    AdjustToTarget(c,
        [i \in 1..TotalPoints(c.duration_days, c.interval_seconds) |->
            SampleBw(c, i - 1, noise, BurstFactor(c, 50, 20))])

\* What the API keeps of the POSTs it answered with HTTP 200
Accepted(posts) ==
    LET RECURSIVE Keep(_)
        Keep(i) == IF i > Len(posts) THEN <<>>
                   ELSE (IF posts[i].ok
                         THEN <<[start_time |-> posts[i].log.start_time,
                                 region |-> posts[i].log.region]>>
                         ELSE <<>>) \o Keep(i + 1)
    IN  Keep(1)

\* A new scheduler in a directory without a state file
InitScheduler ==
    /\ HostIdle /\ SvcIdle
    /\ cfg \in SchedConfigs
    /\ pc = "idle"
    /\ CurveIdle /\ StatIdle /\ RecIdle /\ MonthIdle

\* Time passes between two calls
ClockAdvances ==
    /\ \E later \in SchedInstants : later > now /\ now' = later
    /\ UNCHANGED <<cfg, tz, raised, pc, billing, pushVars, dt, aligned, state, state_file,
                   sched_curve, returned, history, curveVars, statVars, recVars,
                   monthVars>>

\* The body of scheduler.run_once(dry_run).  history is what the API has accepted so far:
\* the start_time and region of every entry answered with HTTP 200.
RunOnceCall(dry) ==
    /\ dt' = FromTimestamp(now)
    /\ aligned' = AlignToInterval(cfg, dt')
    /\ \E timestamp_ms \in {TimestampOf(aligned')} :
          IF AlreadyPushed(state, timestamp_ms)
          THEN /\ returned' = "True"
               /\ UNCHANGED <<dry_run, pusher_stats, before, sent, batch_start, state,
                              state_file, sched_curve, history, logs, bandwidth,
                              timestamp, metrics>>
          ELSE /\ \E noise \in SchedCurveDraws(sched_curve) :
                     sched_curve' = [is_none |-> FALSE,
                                     samples |-> IF sched_curve.is_none
                                                 THEN GeneratedCurve(cfg, noise)
                                                 ELSE sched_curve.samples]
               /\ IF state.current_index >= Len(sched_curve'.samples)
                  THEN /\ returned' = "False"
                       /\ UNCHANGED <<dry_run, pusher_stats, before, sent, batch_start,
                                      state, state_file, history, logs, bandwidth,
                                      timestamp, metrics>>
                  ELSE /\ bandwidth' = sched_curve'.samples[state.current_index + 1]
                       /\ timestamp' = timestamp_ms
                       /\ \E d \in MonthDeriveDraws(cfg),
                             a \in MonthInjectDraws(cfg, timestamp_ms) :
                             metrics' = Inject(cfg,
                                               Derive(bandwidth', cfg.interval_seconds, d),
                                               timestamp_ms, a)
                       /\ \E dd \in SchedDistributeDraws(cfg) :
                             logs' = Distribute(cfg, metrics', timestamp_ms, dd)
                       /\ \E ok \in PostOutcomes(Len(logs')) :
                             \E call \in {PushBatch(pusher_stats, logs', dry, ok)} :
                                /\ dry_run' = dry
                                /\ before' = pusher_stats
                                /\ pusher_stats' = call.stats
                                /\ sent' = call.posts
                                /\ batch_start' = 0
                                /\ history' = history \o
                                      Accepted(IF dry THEN <<>> ELSE call.posts)
                                /\ IF PushSucceeded(call.results)
                                   THEN /\ state' = Recorded(state, timestamp_ms)
                                        /\ state_file' = Saved(state')
                                        /\ returned' = "True"
                                   ELSE /\ returned' = "False"
                                        /\ UNCHANGED <<state, state_file>>
    /\ UNCHANGED <<cfg, tz, raised, billing, now, entry, fired, pos, summary, report,
                   curveVars, statVars>>

\* One call from outside, dry run or not
RunOnce ==
    /\ pc \in {"idle", "ran"}
    /\ calls < MaxRuns
    /\ calls' = calls + 1
    /\ pc' = "ran"
    /\ \E dry \in BOOLEAN : RunOnceCall(dry)

NextScheduler == ClockAdvances \/ RunOnce

SpecScheduler == InitScheduler /\ [][NextScheduler]_vars

---------------------------------------------------------------------------
(* RealtimeScheduler.run_forever: the loop of waiting for the next interval,
   run_once and, after a failure, a minute of sleep, until the user interrupts
   it.  The process runs on as long as it is not interrupted; nothing obliges the
   user to interrupt it. *)

\* The last instant of the clock that is told apart, one interval after the
\* window, in ms: every later instant is represented by it
ForeverHorizon == 115200000

\* time.sleep(60), in ms
RetrySleep == 60000

\* Every sample of the curve has been recorded as pushed
AllPushed == ~sched_curve.is_none /\ state.current_index >= Len(sched_curve.samples)

\* scheduler.run_forever(dry_run) called on a new scheduler, at 00:00:00 or 100 s later
InitForever ==
    /\ HostIdle
    /\ cfg \in SchedConfigs
    /\ billing = NoBilling
    /\ dry_run \in BOOLEAN
    /\ pusher_stats = NoStats /\ before = NoStats /\ sent = <<>>
    /\ batch_start = 0 /\ calls = 0
    /\ now \in {0, 100000}
    /\ dt = NoDatetime /\ aligned = NoDatetime
    /\ state = FreshState /\ state_file = NoStateFile /\ sched_curve = NoCurve
    /\ returned = "not called" /\ history = <<>>
    /\ pc = "waiting"
    /\ CurveIdle /\ StatIdle /\ RecIdle /\ MonthIdle

\* self._wait_until_next_interval(): the process sleeps to the end of the
\* running interval
WaitUntilNextInterval ==
    /\ pc = "waiting"
    /\ dt' = FromTimestamp(now)
    /\ aligned' = AlignToInterval(cfg, dt')
    /\ LET next_time == aligned'.wall + cfg.interval_seconds * 1000
           wait_ms == next_time - dt'.wall
       IN  now' = Min(now + Max(wait_ms, 0), ForeverHorizon)
    /\ pc' = "running"
    /\ UNCHANGED <<cfg, tz, raised, billing, pushVars, state, state_file, sched_curve,
                   returned, history, curveVars, statVars, recVars, monthVars>>

\* success = self.run_once(dry_run); calls counts the calls made before every
\* sample is pushed, up to MaxRuns
ForeverRunOnce ==
    /\ pc = "running"
    /\ calls < MaxRuns \/ AllPushed
    /\ RunOnceCall(dry_run)
    /\ calls' = IF AllPushed THEN calls ELSE calls + 1
    /\ pc' = IF returned' = "True" THEN "waiting" ELSE "sleeping"

\* if not success: time.sleep(60)
SleepMinute ==
    /\ pc = "sleeping"
    /\ now' = Min(now + RetrySleep, ForeverHorizon)
    /\ pc' = "waiting"
    /\ UNCHANGED <<cfg, tz, raised, billing, pushVars, dt, aligned, state, state_file,
                   sched_curve, returned, history, curveVars, statVars, recVars,
                   monthVars>>

\* except KeyboardInterrupt: self._save_state(), and run_forever returns
Interrupt ==
    /\ pc \in {"waiting", "running", "sleeping"}
    /\ state_file' = Saved(state)
    /\ pc' = "stopped"
    /\ UNCHANGED <<cfg, tz, raised, billing, pushVars, now, dt, aligned, state,
                   sched_curve, returned, history, curveVars, statVars, recVars,
                   monthVars>>

NextForever == WaitUntilNextInterval \/ ForeverRunOnce \/ SleepMinute \/ Interrupt

\* What the loop sees of a call of run_once: it returns, and the loop goes on
\* to wait or to sleep.  Among the steps of NextForever these are the steps of
\* ForeverRunOnce, and it is enabled when ForeverRunOnce is.
RunOnceReturns ==
    /\ pc = "running"
    /\ calls < MaxRuns \/ AllPushed
    /\ pc' \in {"waiting", "sleeping"}

\* The statements of the loop; each of them changes pc
LoopStep == WaitUntilNextInterval \/ RunOnceReturns \/ SleepMinute

\* A process that is not interrupted executes its next statement
SpecForever == InitForever /\ [][NextForever]_vars /\ WF_pc(LoopStep)

---------------------------------------------------------------------------
(* Claims about the returned curve *)

\* The mean of the per-day 95th-percentile values of the returned curve
ReturnedP95 == AvgDailyP95(cfg, curve)

C2_SamplesAtLeastFloor ==
    pc = "generated" => \A i \in 1..Len(curve) : curve[i] >= FloorGbps

\* C11: generate(duration_days, interval_seconds) returns exactly
\* duration_days * 86400 / interval_seconds samples whenever interval_seconds
\* is positive and divides a day evenly.
C11_SampleCount ==
    (/\ pc \in {"generated", "raised"}
     /\ cfg.interval_seconds > 0
     /\ 86400 % cfg.interval_seconds = 0) =>
        /\ raised = ""
        /\ Len(curve) = (cfg.duration_days * 86400) \div cfg.interval_seconds

\* The day-sized windows of a curve, each with its length and the element of
\* the ascending-sorted window at index floor(n * 0.95) - 1 clamped to [0, n - 1]
DayWindows(cv, points_per_day) ==
    [k \in 1..((Len(cv) + points_per_day - 1) \div points_per_day) |->
        LET window == SubSeq(cv, (k - 1) * points_per_day + 1,
                             Min(k * points_per_day, Len(cv)))
            n      == Len(window)
            index  == Min(Max((n * 95) \div 100 - 1, 0), n - 1)
        IN  [n |-> n, value |-> Sorted(window)[index + 1]]]

\* C13: in calibration the per-day value of a window of n points is the element
\* of the ascending-sorted window at index floor(n*0.95)-1 clamped to [0, n-1]
\* (index 272 for n = 288), and exactly the day-sized windows holding at least
\* half a full day of points contribute to the averaged daily p95, which
\* decides the rescaling.
C13_DailyValuesAndWindows ==
    pc = "adjusted" =>
        LET points_per_day == 1440 \div (cfg.interval_seconds \div 60)
            contributing ==
                SelectSeq(DayWindows(raw, points_per_day),
                          LAMBDA w : 2 * w.n >= points_per_day)
            daily == [k \in 1..Len(contributing) |-> contributing[k].value]
            mean  == IF daily # <<>> THEN SumSeq(daily) \div Len(daily) ELSE MaxSeq(raw)
        IN  /\ DailyP95List(cfg, raw) = daily
            /\ (Len(raw) = 288 /\ points_per_day = 288) => daily = <<Sorted(raw)[273]>>
            /\ curve = IF 50 * Abs(mean - cfg.target_gbps) > cfg.target_gbps
                       THEN [i \in 1..Len(raw) |->
                                MulDiv(raw[i], cfg.target_gbps, mean)]
                       ELSE raw

\* C13 witness: four points at three points per day, so that the second window
\* holds less than half a day and is left out, and the curve was rescaled
C13_Witness ==
    /\ pc = "adjusted"
    /\ cfg.interval_seconds = 28800
    /\ Len(raw) = 4
    /\ raw[4] > raw[3] /\ raw[3] > raw[1]
    /\ Len(DailyP95List(cfg, raw)) = 1
    /\ curve # raw

\* The day of the week (0 = Monday) on which start_date + index * interval falls
CalendarDay(c, i) == (c.start_date + (i * c.interval_seconds) \div 86400) % 7

\* C20: a sample gets weekly_factor 0.85 exactly when its timestamp, the
\* configured start_date + index * interval, falls on a Saturday or a Sunday,
\* and 1.0 otherwise, for every start_date: every sample generate has
\* appended is the product of the factors with that weekly factor.
C20_WeekendFactor ==
    pc = "generate" =>
        \A i \in 0..(Len(curve) - 1) :
            \E noise \in NoiseDraws, u \in UnitDraws, burst \in BurstDraws :
                curve[i + 1] =
                    SampleWith(cfg, i, IF CalendarDay(cfg, i) \in {5, 6} THEN 17 ELSE 20,
                               noise, BurstFactor(cfg, u, burst))

---------------------------------------------------------------------------
(* Claims about calculate_p95 *)

\* C4: calculate_p95 called with an empty list fails with an EmptyInputError;
\* it never returns a result value for empty input.
C4_EmptyInputRaises ==
    (pc = "returned" /\ values = <<>>) => result.raised = "EmptyInputError"

C14_PercentileLadder ==
    (pc = "returned" /\ values # <<>>) =>
        LET stats == result.value
            n     == Len(values)
        IN  /\ result.raised = ""
            /\ stats.total_points = n
            /\ n \div 2 \in 0..(n - 1)
            /\ (n * 95) \div 100 \in 0..(n - 1)
            /\ (n * 99) \div 100 \in 0..(n - 1)
            /\ stats.min <= stats.p50
            /\ stats.p50 <= stats.p95
            /\ stats.p95 <= stats.p99
            /\ stats.p99 <= stats.max
            /\ \A i \in 1..n : stats.min <= values[i] /\ values[i] <= stats.max

\* C14 witness: an input given in descending order whose five statistics are
\* all different
C14_Witness ==
    /\ pc = "returned"
    /\ Len(values) = 288
    /\ values[1] > values[288]
    /\ result.value.min < result.value.p50
    /\ result.value.p50 < result.value.p95
    /\ result.value.p95 < result.value.p99
    /\ result.value.p99 < result.value.max

---------------------------------------------------------------------------
(* Claims about derive and inject *)

ClientTotal(m) == m.http_code_2xx + m.http_code_3xx + m.http_code_4xx + m.http_code_5xx

OriginTotal(m) ==
    m.bs_http_code_2xx + m.bs_http_code_3xx + m.bs_http_code_4xx + m.bs_http_code_5xx

\* C5: in every record returned by derive the four client-facing status buckets
\* sum to req_num and the four origin-facing buckets sum to bs_num.
C5_BucketsSumToCounts ==
    pc = "derived" =>
        /\ ClientTotal(metrics) = metrics.req_num
        /\ OriginTotal(metrics) = metrics.bs_num

\* C6: in every record returned by derive, hit_num + bs_num = req_num.
C6_HitPlusOriginIsRequests ==
    pc = "derived" => metrics.hit_num + metrics.bs_num = metrics.req_num

\* C6 witness: a derived record with cache hits and origin requests
C6_Witness ==
    /\ pc = "derived"
    /\ metrics.hit_num > 0
    /\ metrics.bs_num > 0
    /\ metrics.req_num > 1

CountFields ==
    {"req_num", "hit_num", "bs_num", "bs_fail_num", "http_code_2xx", "http_code_3xx",
     "http_code_4xx", "http_code_5xx", "bs_http_code_2xx", "bs_http_code_3xx",
     "bs_http_code_4xx", "bs_http_code_5xx", "flux", "bs_flux", "hit_flux"}

NonNegative(m) == \A k \in CountFields : m[k] >= 0

\* C7: after inject on a record whose count fields are all non-negative, every
\* count field is still non-negative, whichever perturbations fired.
C7_CountsStayNonNegative ==
    (pc = "injected" /\ NonNegative(entry)) => NonNegative(metrics)

\* C7 witness: all four perturbations fired and the maintenance spike was larger
\* than the 2xx bucket it is taken from
C7_Witness ==
    /\ pc = "injected"
    /\ MaintenanceFires(timestamp, fired) /\ OutageFires(cfg, fired)
    /\ PurgeFires(fired) /\ AbuseFires(fired)
    /\ NonNegative(entry)
    /\ entry.http_code_2xx > 0
    /\ entry.http_code_2xx < MulDiv(entry.req_num, fired.spike_5xx_share, 100)
    /\ metrics.http_code_2xx = 0

\* C8: when the maintenance perturbation (the abuse perturbation) alone touches
\* the client buckets, with an amount s <= http_code_2xx, the 5xx (4xx) bucket
\* grows by s, the 2xx bucket shrinks by s and the client total is unchanged.
C8_RedirectionKeepsClientTotal ==
    LET s5 == MulDiv(entry.req_num, fired.spike_5xx_share, 100)
        s4 == MulDiv(entry.req_num, fired.spike_4xx_share, 100)
    IN  /\ (/\ pc = "injected"
            /\ MaintenanceFires(timestamp, fired) /\ ~AbuseFires(fired)
            /\ s5 <= entry.http_code_2xx)
           => /\ metrics.http_code_5xx = entry.http_code_5xx + s5
              /\ metrics.http_code_2xx = entry.http_code_2xx - s5
              /\ ClientTotal(metrics) = ClientTotal(entry)
        /\ (/\ pc = "injected"
            /\ AbuseFires(fired) /\ ~MaintenanceFires(timestamp, fired)
            /\ s4 <= entry.http_code_2xx)
           => /\ metrics.http_code_4xx = entry.http_code_4xx + s4
              /\ metrics.http_code_2xx = entry.http_code_2xx - s4
              /\ ClientTotal(metrics) = ClientTotal(entry)

\* C9: when the origin outage fires on a record with origin count N, the record
\* returned by inject has bs_fail_num = floor(N * r) for the drawn r in
\* [0.3, 0.8] (within [300, 800] for N = 1000), bs_http_code_5xx = bs_fail_num
\* and bs_http_code_2xx = N - bs_fail_num.
C9_OutageMirrorsFailures ==
    (pc = "injected" /\ OutageFires(cfg, fired) /\ entry.bs_num >= 0) =>
        LET N == entry.bs_num
        IN  /\ fired.fail_rate \in 30..80
            /\ metrics.bs_fail_num = MulDiv(N, fired.fail_rate, 100)
            /\ 10 * metrics.bs_fail_num >= 3 * N - 9
            /\ 10 * metrics.bs_fail_num <= 8 * N
            /\ N = 1000 => metrics.bs_fail_num \in 300..800
            /\ metrics.bs_http_code_5xx = metrics.bs_fail_num
            /\ metrics.bs_http_code_2xx = N - metrics.bs_fail_num

\* C9 witness: the outage fired on an origin count of 1000, and the cache purge
\* that fired after it changed the origin count
C9_Witness ==
    /\ pc = "injected"
    /\ OutageFires(cfg, fired) /\ PurgeFires(fired)
    /\ entry.bs_num = 1000
    /\ entry.bs_http_code_5xx > 0
    /\ metrics.bs_num # entry.bs_num
    /\ metrics.bs_fail_num > 0

\* C10: when the cache purge fires, flux and req_num are unchanged,
\* hit_num = floor(req_num * h) and hit_flux = floor(flux * h) for the one drawn
\* h in [0.5, 0.7], bs_num = req_num - hit_num and bs_flux = flux - hit_flux, so
\* hit_num + bs_num = req_num and hit_flux + bs_flux = flux.
C10_PurgeResplitsTraffic ==
    (pc = "injected" /\ PurgeFires(fired)) =>
        LET h == fired.new_hit_rate
        IN  /\ h \in 50..70
            /\ metrics.flux = entry.flux
            /\ metrics.req_num = entry.req_num
            /\ metrics.hit_num = MulDiv(entry.req_num, h, 100)
            /\ metrics.hit_flux = MulDiv(entry.flux, h, 100)
            /\ metrics.bs_num = entry.req_num - metrics.hit_num
            /\ metrics.bs_flux = entry.flux - metrics.hit_flux
            /\ metrics.hit_num + metrics.bs_num = metrics.req_num
            /\ metrics.hit_flux + metrics.bs_flux = metrics.flux

\* C10 witness: the purge fired on a derived record and changed its split
C10_Witness ==
    /\ pc = "injected"
    /\ PurgeFires(fired)
    /\ bandwidth > 0
    /\ entry.flux > 0
    /\ metrics.hit_num # entry.hit_num
    /\ metrics.hit_flux # entry.hit_flux

\* C29: in every record derive returns, and in every record inject returns on
\* such a record, bs_fail_num <= bs_num, for every rate range within [0, 1]
\* and every combination of perturbations.
C29_OriginFailuresBounded ==
    (pc \in {"derived", "injected"} /\ bandwidth > 0)
    => metrics.bs_fail_num <= metrics.bs_num

---------------------------------------------------------------------------
(* Claims about the round trip *)

\* C3: for target = 20 Gbps, duration = 1 day and interval = 300 s, the logs of
\* generate_full_month passed to validate_logs(logs, 20) yield
\* deviation_percent < 5.0 and passed = true, whatever the draws and the
\* region/domain configuration.
C3_RoundTripPasses ==
    (/\ pc = "validated"
     /\ cfg.target_gbps = 20000 /\ cfg.duration_days = 1 /\ cfg.interval_seconds = 300) =>
        /\ report.raised = ""
        /\ report.value.validation.deviation_percent < 5
        /\ report.value.validation.passed

---------------------------------------------------------------------------
(* Claims about distribute *)

\* C15: distribute returns exactly one entry per configured region, in
\* configuration order, each tagged with the configured tenant id, the given
\* timestamp, the region's country and region, a domain of the configured
\* list and the configured interval; the source record is not modified.
C15_OneEntryPerRegion ==
    pc = "distributed" =>
        /\ Len(logs) = Len(cfg.regions)
        /\ \A r \in 1..Len(logs) :
              /\ logs[r].tenantId = cfg.tenant_id
              /\ logs[r].start_time = timestamp
              /\ logs[r].country = cfg.regions[r].country
              /\ logs[r].region = cfg.regions[r].region
              /\ \E i \in 1..Len(cfg.domains) : logs[r].domain = cfg.domains[i]
              /\ logs[r].interval = cfg.interval_seconds
        /\ metrics = entry

\* C15 witness: three regions, two of them on different domains
C15_Witness ==
    /\ pc = "distributed"
    /\ Len(logs) = 3
    /\ logs[1].region = "beijing" /\ logs[3].region = "tokyo"
    /\ logs[1].domain # logs[2].domain
    /\ timestamp > 0

\* C16: for every region with weight w and every integer field v >= 0 of the
\* source record, the region's entry carries floor(v * w * j) for one jitter j
\* in [0.9, 1.1] shared by all fields of the entry, so the value lies between
\* floor(0.9 * w * v) and floor(1.1 * w * v) (req_num within 10% of
\* weight * 9000 for a record of 9000 requests).
C16_WeightedShares ==
    pc = "distributed" =>
        \A r \in 1..Len(logs) :
            LET w == cfg.regions[r].weight
            IN  /\ \E j \in 90..110 :
                      \A k \in DOMAIN metrics :
                          logs[r][k] = MulDiv(metrics[k], w * j, 10000)
                /\ \A k \in DOMAIN metrics :
                      /\ logs[r][k] >= MulDiv(metrics[k], w * 90, 10000)
                      /\ logs[r][k] <= MulDiv(metrics[k], w * 110, 10000)
                /\ metrics.req_num = 9000 => logs[r].req_num \in (81 * w)..(99 * w)

\* C16 witness: a record of 9000 requests spread over three regions whose
\* shares do not add up to 9000
C16_Witness ==
    /\ pc = "distributed"
    /\ metrics.req_num = 9000
    /\ Len(logs) = 3
    /\ logs[1].req_num = 4050
    /\ logs[2].req_num = 2970
    /\ logs[1].req_num + logs[2].req_num + logs[3].req_num # 9000

---------------------------------------------------------------------------
(* Claims about generate_full_month *)

\* C17: generate_full_month returns exactly (number of curve samples) times
\* (number of configured regions) entries; the entries of sample i carry
\* start_time = window start + i * interval_seconds in epoch milliseconds, so
\* start_time never decreases along the returned sequence.
C17_EntriesAndStartTimes ==
    pc \in {"month_done", "validated"} =>
        LET regions == Len(cfg.regions)
        IN  /\ Len(logs) = Len(curve) * regions
            /\ \A idx \in 1..Len(logs) :
                  logs[idx].start_time =
                      ((idx - 1) \div regions) * cfg.interval_seconds * 1000
            /\ \A idx \in 1..(Len(logs) - 1) :
                  logs[idx].start_time <= logs[idx + 1].start_time

\* C18: for every sample the record is derived, then mutated by inject exactly
\* once, then distributed; an entry already appended to the output is never
\* changed by any later step.
C18_RecordLifecycle ==
    [][/\ Len(logs') >= Len(logs)
       /\ SubSeq(logs', 1, Len(logs)) = logs
       /\ metrics' # metrics =>
             \/ pc = "month_derive" /\ pc' = "month_inject"
             \/ pc = "month_inject" /\ pc' = "month_distribute"
       /\ pc' = "month_inject" => pc = "month_derive"
       /\ pc' = "month_distribute" => pc = "month_inject"
       /\ pc = "month_inject" /\ pc' = "month_distribute" =>
             \E d \in InjectDraws(cfg, timestamp) :
                 metrics' = Inject(cfg, metrics, timestamp, d)
       /\ pc = "month_distribute" /\ pc' \in {"month_derive", "month_done"} =>
             /\ metrics' = metrics
             /\ \E dd \in DistributeDraws(cfg) :
                   logs' = logs \o Distribute(cfg, metrics, timestamp, dd)
       /\ logs' # logs => pc = "month_distribute"]_vars

\* C18 witness: the third sample's record, changed by inject and waiting for
\* distribution, with the entries of the first two samples already appended
C18_Witness ==
    /\ pc = "month_distribute"
    /\ pos = 2
    /\ Len(logs) = 2 * Len(cfg.regions)
    /\ metrics # entry
    /\ logs[1].start_time < logs[Len(logs)].start_time

\* C19: when a required configuration field is missing the run fails before
\* any generation begins: no bandwidth sample, no MetricRecord and no LogEntry
\* has been produced when the configuration error is raised.
C19_FailsBeforeGeneration ==
    raised = "KeyError" =>
        /\ curve = <<>>
        /\ metrics = NoMetrics
        /\ logs = <<>>

---------------------------------------------------------------------------
(* Claims about validate_logs *)

\* C21: validate_logs sets passed to true exactly when
\* |actual_avg - target| / target * 100 < 5.0, actual_avg being the mean over
\* all logs of bw / 1024; a deviation of exactly 5% does not pass.
C21_PassedBelowFivePercent ==
    (pc = "validated" /\ report.raised = "") =>
        LET n     == Len(logs)
            total == SumSeq(BwOf(logs))
            want  == 1024 * n * cfg.target_gbps
        IN  report.value.validation.passed <=> 20 * Abs(1000 * total - want) < want

\* C21 witness: two logs whose mean is 19 Gbps against a target of 20 Gbps,
\* exactly 5% away, and the report does not pass
C21_Witness ==
    /\ pc = "validated"
    /\ Len(logs) = 2
    /\ logs[1].bw + logs[2].bw = 2 * 19456
    /\ logs[1].bw # logs[2].bw
    /\ ~report.value.validation.passed

---------------------------------------------------------------------------
(* Claims about calculate_95_billing *)

\* C22: for every non-empty curve calculate_95_billing returns
\* monthly_cost = p95 * unit_price and saving = flux_cost_comparison -
\* monthly_cost, a negative saving included; for a constant curve of value c
\* monthly_cost = c * unit_price (1000 for c = 10 and unit_price = 100).
C22_BillingFormulas ==
    (pc = "billed" /\ values # <<>>) =>
        LET b == billing.value
        IN  /\ billing.raised = ""
            /\ b.p95_bandwidth_gbps = CalculateP95(values).value.p95
            /\ b.monthly_cost = b.p95_bandwidth_gbps * b.unit_price
            /\ b.saving = b.flux_cost_comparison - b.monthly_cost
            /\ (\A i \in 1..Len(values) : values[i] = values[1]) =>
                  b.monthly_cost = values[1] * b.unit_price
            /\ (\A i \in 1..Len(values) : values[i] = 10000) /\ b.unit_price = 100 =>
                  b.monthly_cost = 1000 * 1000

\* C22 witness: three samples of 10 Gbps at 100 yuan per Gbps: the cost is
\* 1000 yuan, the flat cost 900 yuan, and the saving is negative
C22_Witness ==
    /\ pc = "billed"
    /\ values = <<10000, 10000, 10000>>
    /\ billing.value.unit_price = 100
    /\ billing.value.monthly_cost = 1000000
    /\ billing.value.saving = -100000

---------------------------------------------------------------------------
(* Claims about the pusher *)

\* C24: push_all pushes the batches in input order, each entry at most once;
\* after any batch, if the cumulative total exceeds 100 entries and
\* failed / total > 0.5, no further batch is pushed; otherwise every batch of
\* the input is pushed.
C24_BatchesInOrderUntilFailStop ==
    LET n == Len(logs)
        m == Len(sent)
        size == cfg.batch_size
        ends == {Min(j * size, n) : j \in 1..((n + size - 1) \div size)}
        failedTo(k) ==
            before.failed
              + (IF dry_run THEN 0 ELSE Cardinality({i \in 1..k : ~sent[i].ok}))
        giveUp(k) ==
            before.total + k > 100 /\ 2 * failedTo(k) > before.total + k
    IN  /\ pc = "push_all" => m = Min(batch_start, n)
        /\ pc \in {"push_all", "pushed_all"} =>
              /\ m <= n
              /\ \A k \in 1..m : sent[k].log = logs[k]
              /\ \A k \in ends : k < m => ~giveUp(k)
        /\ pc = "pushed_all" =>
              /\ m < n => m \in ends /\ giveUp(m)
              /\ (\A k \in ends : k < n => ~giveUp(k)) => m = n

\* C24 witness: of 150 entries in batches of 60 the first two batches were
\* pushed, by a pusher that had pushed nothing before, and the third was not
C24_Witness ==
    /\ pc = "pushed_all"
    /\ before.total = 0
    /\ Len(logs) = 150
    /\ Len(sent) = 120
    /\ ~dry_run

\* C28: after any sequence of push_batch and push_all calls on one pusher, in
\* dry-run mode or not, stats.total = stats.success + stats.failed.
C28_CountersAddUp ==
    pc \in {"idle", "pushed_batch", "pushed_all"} =>
        pusher_stats.total = pusher_stats.success + pusher_stats.failed

---------------------------------------------------------------------------
(* Claims about the scheduler *)

\* C25: _align_to_interval maps every time t, for every interval I > 0, to a
\* time a whose epoch seconds are a multiple of I with a <= t < a + I
\* (14:03:27 -> 14:00:00 and 14:07:56 -> 14:05:00 for I = 300), and aligning
\* an aligned time returns it unchanged.
C25_AlignsDown ==
    LET t == TimestampOf(dt)
        a == TimestampOf(aligned)
        I == cfg.interval_seconds * 1000
    IN  /\ pc \in {"aligned", "realigned"} =>
              /\ a % I = 0
              /\ a <= t /\ t < a + I
        /\ (pc = "aligned" /\ tz = FixedZone /\ cfg.interval_seconds = 300) =>
              /\ dt.wall = 50607000 => aligned.wall = 50400000
              /\ dt.wall = 50876000 => aligned.wall = 50700000
        /\ pc = "realigned" => aligned = dt

C26_RecordedOnlyWhenAllPushed ==
    (pc = "ran" /\ state.pushed_timestamps # <<>>
        /\ state.pushed_timestamps[Len(state.pushed_timestamps)] = timestamp)
    => \A i \in DOMAIN sent : sent[i].ok

\* C27: after any sequence of run_once calls on a fresh scheduler,
\* len(pushed_timestamps) == current_index and pushed_timestamps has no
\* duplicate; a run_once whose push reports zero successes, or that finds
\* current_index >= the length of the curve, leaves the state unchanged.
C27_StateConsistent ==
    /\ [](/\ Len(state.pushed_timestamps) = state.current_index
          /\ \A i, j \in DOMAIN state.pushed_timestamps :
                state.pushed_timestamps[i] = state.pushed_timestamps[j] => i = j)
    /\ [][(/\ calls' = calls + 1
            /\ \/ /\ pusher_stats'.total # pusher_stats.total
                  /\ \A i \in DOMAIN sent' : ~sent'[i].ok
               \/ state.current_index >= Len(sched_curve'.samples))
           => UNCHANGED <<state, state_file>>]_vars

\* All three samples are recorded, at three timestamps, and the call after
\* them, at a fourth timestamp, found the curve used up
C27_Witness ==
    /\ pc = "ran" /\ returned = "False"
    /\ state.current_index = 3 /\ Len(sched_curve.samples) = 3
    /\ state.pushed_timestamps = <<0, 28800000, 57600000>>
    /\ now = 86400000

\* C30: run_forever terminates once every sample of the curve has been pushed
\* (current_index == the length of the curve); it does not keep looping after
\* that.
C30_TerminatesWhenDone == AllPushed ~> (pc = "stopped")

===========================================================================
